---- MODULE Spec2Model ----
(***************************************************************************)
(* State-machine model of the gladly-conversation-analyzer backend:        *)
(*   - the topic-extraction batch engine (routes/conversation_routes.py,   *)
(*     services/topic_extraction_service.py, topic_storage_service.py),    *)
(*   - the retrieval planner and executor of the two RAG services          *)
(*     (services/rag_service.py, services/survicate_rag_service.py),       *)
(*   - the taxonomy normalisation of extracted topics.                     *)
(*                                                                         *)
(* Python values are encoded as follows.                                   *)
(*   str            a tuple of one-character strings, <<"G","P","S">>      *)
(*   None / value   the option encoding: None is << >>, a value x is <<x>> *)
(*   dict           a function; its key set is DOMAIN                      *)
(*   exception msg  a tuple of message parts (str(e) is their join)        *)
(***************************************************************************)
EXTENDS Integers, Sequences, FiniteSets, TLC

----------------------------------------------------------------------------
(* Generic helpers                                                         *)

None == << >>

Some(x) == <<x>>

Min(a, b) == IF a <= b THEN a ELSE b

Max(a, b) == IF a >= b THEN a ELSE b

Range(s) == { s[i] : i \in DOMAIN s }

\* s[:n] of Python for n >= 0 (the first n elements, fewer when s is shorter)
Take(s, n) == IF n <= 0 THEN << >> ELSE SubSeq(s, 1, Min(n, Len(s)))

\* the elements of the finite set S of integers, in increasing order
RECURSIVE SortedSeq(_)
SortedSeq(S) ==
  IF S = {} THEN << >>
  ELSE LET m == CHOOSE x \in S : \A y \in S : x <= y
       IN  <<m>> \o SortedSeq(S \ {m})

\* dict.update: the entries of g override those of f
Update(f, g) ==
  [k \in (DOMAIN f) \cup (DOMAIN g) |-> IF k \in DOMAIN g THEN g[k] ELSE f[k]]

\* F(v), with v evaluated once whatever the number of its uses in F
Bind(v, F(_)) == CHOOSE r \in { F(x) : x \in {v} } : TRUE

EmptyDict == [k \in {} |-> None]

----------------------------------------------------------------------------
(* Topic taxonomy and its normalisation (topic_extraction_service.py)      *)

CONVERSATION_TOPICS ==
  << <<"G","P","S"," ","a","n","d"," ","L","o","c","a","t","i","o","n"," ","A","c","c","u","r","a","c","y"," ","I","s","s","u","e","s">>,
     <<"D","o","g"," ","d","o","e","s","n","'","t"," ","r","e","s","p","o","n","d"," ","t","o"," ","c","o","l","l","a","r">>,
     <<"B","a","t","t","e","r","y"," ","l","i","f","e",","," ","c","h","a","r","g","i","n","g"," ","o","r"," ","p","o","w","e","r"," ","i","s","s","u","e","s">>,
     <<"F","e","e","d","b","a","c","k"," ","T","i","m","i","n","g"," ","/"," ","R","e","s","p","o","n","s","e"," ","D","e","l","a","y"," ","I","s","s","u","e","s">>,
     <<"H","a","r","d","w","a","r","e"," ","R","e","l","i","a","b","i","l","i","t","y"," ","I","s","s","u","e","s">>,
     <<"B","i","l","l","i","n","g"," ","/"," ","S","u","b","s","c","r","i","p","t","i","o","n"," ","Q","u","e","s","t","i","o","n","s">>,
     <<"S","h","i","p","p","i","n","g"," ","/"," ","D","e","l","i","v","e","r","y"," ","I","s","s","u","e","s">>,
     <<"A","c","c","o","u","n","t"," ","M","a","n","a","g","e","m","e","n","t"," ","/"," ","L","o","g","i","n"," ","I","s","s","u","e","s">>,
     <<"F","e","a","t","u","r","e"," ","Q","u","e","s","t","i","o","n","s"," ","/"," ","H","o","w","-","t","o">>,
     <<"R","e","t","u","r","n","s"," ","/"," ","R","e","f","u","n","d","s">>,
     <<"P","r","o","d","u","c","t"," ","R","e","c","o","m","m","e","n","d","a","t","i","o","n","s"," ","/"," ","P","u","r","c","h","a","s","i","n","g">>,
     <<"G","e","n","e","r","a","l"," ","C","u","s","t","o","m","e","r"," ","S","e","r","v","i","c","e">>,
     <<"O","t","h","e","r">> >>

TopicSet == Range(CONVERSATION_TOPICS)

Other == <<"O","t","h","e","r">>

UpperToLower ==
     ("A" :> "a") @@ ("B" :> "b") @@ ("C" :> "c") @@ ("D" :> "d") @@ ("E" :> "e") @@ ("F" :> "f")
     @@ ("G" :> "g") @@ ("H" :> "h") @@ ("I" :> "i") @@ ("J" :> "j") @@ ("K" :> "k") @@ ("L" :> "l")
     @@ ("M" :> "m") @@ ("N" :> "n") @@ ("O" :> "o") @@ ("P" :> "p") @@ ("Q" :> "q") @@ ("R" :> "r")
     @@ ("S" :> "s") @@ ("T" :> "t") @@ ("U" :> "u") @@ ("V" :> "v") @@ ("W" :> "w") @@ ("X" :> "x")
     @@ ("Y" :> "y") @@ ("Z" :> "z")

\* str.lower()
Lower(s) == [i \in DOMAIN s |-> IF s[i] \in DOMAIN UpperToLower THEN UpperToLower[s[i]] ELSE s[i]]

\* sub in s, for Python strings
Contains(sub, s) ==
  \E i \in 0..(Len(s) - Len(sub)) : SubSeq(s, i + 1, i + Len(sub)) = sub

\* Python values the JSON of the LLM can hold under a key:
\* a string, null, a number, a list
PyStr(s) == [type |-> "str", val |-> s]

PyNull == [type |-> "null", val |-> << >>]

PyInt(n) == [type |-> "int", val |-> <<ToString(n)>>]

PyList == [type |-> "list", val |-> << >>]

PyListOf(x) == [type |-> "list", val |-> <<x>>]

\* a list of the values of a sequence
PyListFrom(xs) == [type |-> "list", val |-> xs]

\* bool(x) of Python for the values above
Truthy(x) ==
  CASE x.type = "str"  -> x.val # << >>
    [] x.type = "null" -> FALSE
    [] x.type = "int"  -> x.val # <<"0">>
    [] x.type = "list" -> x.val # << >>

\* the first taxonomy entry, from index i on, that equals the label up to case
RECURSIVE FirstCaseMatch(_, _)
FirstCaseMatch(topic_lower, i) ==
  IF i > Len(CONVERSATION_TOPICS) THEN None
  ELSE IF Lower(CONVERSATION_TOPICS[i]) = topic_lower THEN Some(CONVERSATION_TOPICS[i])
  ELSE FirstCaseMatch(topic_lower, i + 1)

\* a validation that knows only the exact spelling of the taxonomy
validate_topic_exact(topic) ==
  IF ~Truthy(topic) \/ topic.type # "str" THEN Other
  ELSE IF topic.val \in TopicSet THEN topic.val
  ELSE Other

\* TopicExtractionService._validate_topic
_validate_topic(topic) ==
  IF ~Truthy(topic) \/ topic.type # "str" THEN Other
  ELSE IF topic.val \in TopicSet THEN topic.val
  ELSE LET m == FirstCaseMatch(Lower(topic.val), 1)
       IN  IF m # None THEN m[1] ELSE Other

----------------------------------------------------------------------------
(* Bounds of the model and constants of the program                        *)

\* conversations of the corpus that carry a parsable timestamp
NumConvs == 2

\* calendar dates the conversations fall on
NumDates == 2

\* HTTP requests to /extract-topics that the model lets arrive
MaxRequests == 2

\* date_incremental_save persists after this many unsaved records
SaveEvery == 10

\* max_retries of extract_conversation_metadata
MaxRetries == 3

Convs == 1..NumConvs

Dates == 1..NumDates

Requests == 1..MaxRequests

----------------------------------------------------------------------------
(* Topic records and their storage (topic_storage_service.py).             *)
(* A stored value is a legacy bare topic string, encoded [str |-> topic],  *)
(* or a metadata dict, encoded as a function over its keys.                *)

Neutral == <<"N","e","u","t","r","a","l">>

Positive == <<"P","o","s","i","t","i","v","e">>

Negative == <<"N","e","g","a","t","i","v","e">>

Frustrated == <<"F","r","u","s","t","r","a","t","e","d">>

Satisfied == <<"S","a","t","i","s","f","i","e","d">>

Angry == <<"A","n","g","r","y">>

Happy == <<"H","a","p","p","y">>

Concerned == <<"C","o","n","c","e","r","n","e","d">>

\* valid_sentiments of _validate_sentiment
valid_sentiments == {Positive, Negative, Neutral}

\* valid_sentiments of _validate_customer_sentiment
valid_customer_sentiments == {Frustrated, Satisfied, Neutral, Angry, Happy, Concerned}

\* TopicExtractionService._validate_sentiment
_validate_sentiment(sentiment) ==
  IF ~Truthy(sentiment) \/ sentiment.type # "str" THEN Neutral
  ELSE IF sentiment.val \in valid_sentiments THEN sentiment.val
  ELSE LET sentiment_lower == Lower(sentiment.val)
       IN  IF Contains(<<"p","o","s","i","t","i","v","e">>, sentiment_lower)
              \/ Contains(<<"g","o","o","d">>, sentiment_lower)
           THEN Positive
           ELSE IF Contains(<<"n","e","g","a","t","i","v","e">>, sentiment_lower)
                   \/ Contains(<<"b","a","d">>, sentiment_lower)
           THEN Negative
           ELSE Neutral

\* TopicExtractionService._validate_customer_sentiment
_validate_customer_sentiment(sentiment) ==
  IF ~Truthy(sentiment) \/ sentiment.type # "str" THEN Neutral
  ELSE IF sentiment.val \in valid_customer_sentiments THEN sentiment.val
  ELSE LET sentiment_lower == Lower(sentiment.val)
       IN  IF Contains(<<"f","r","u","s","t","r","a","t">>, sentiment_lower) THEN Frustrated
           ELSE IF Contains(<<"s","a","t","i","s","f">>, sentiment_lower)
                   \/ Contains(<<"h","a","p","p","y">>, sentiment_lower)
           THEN Satisfied
           ELSE IF Contains(<<"a","n","g","r","y">>, sentiment_lower)
                   \/ Contains(<<"m","a","d">>, sentiment_lower)
           THEN Angry
           ELSE IF Contains(<<"c","o","n","c","e","r","n">>, sentiment_lower)
                   \/ Contains(<<"w","o","r","r","i">>, sentiment_lower)
           THEN Concerned
           ELSE Neutral

\* str.strip() for blanks
RECURSIVE StripLeft(_)
StripLeft(s) == IF s # << >> /\ s[1] = " " THEN StripLeft(Tail(s)) ELSE s

RECURSIVE StripRight(_)
StripRight(s) ==
  IF s # << >> /\ s[Len(s)] = " " THEN StripRight(SubSeq(s, 1, Len(s) - 1)) ELSE s

Strip(s) == StripRight(StripLeft(s))

\* the loop of _validate_key_phrases over phrases[:5]
RECURSIVE ValidPhrases(_)
ValidPhrases(phrases) ==
  IF phrases = << >> THEN << >>
  ELSE LET phrase == Head(phrases)
       IN  (IF phrase.type = "str" /\ Strip(phrase.val) # << >>
            THEN <<Take(Strip(phrase.val), 100)>> ELSE << >>)
           \o ValidPhrases(Tail(phrases))

\* a validation of the key phrases that keeps every phrase of the list
_validate_key_phrases_all(phrases) ==
  IF phrases.type # "list" THEN << >> ELSE ValidPhrases(phrases.val)

\* TopicExtractionService._validate_key_phrases
_validate_key_phrases(phrases) ==
  IF phrases.type # "list" THEN << >> ELSE ValidPhrases(Take(phrases.val, 5))

\* metadata.get(k, default) of the parsed JSON object
GetOr(metadata, k, default) == IF k \in DOMAIN metadata THEN metadata[k] ELSE default

LegacyValue(topic) == [str |-> topic]

IsStr(value) == "str" \in DOMAIN value

\* the dict returned by extract_conversation_metadata on a parsed response
ExtractedMetadata(metadata) ==
  [topic              |-> _validate_topic(GetOr(metadata, "topic", PyStr(Other))),
   sentiment          |-> _validate_sentiment(GetOr(metadata, "sentiment", PyStr(Neutral))),
   customer_sentiment |->
     _validate_customer_sentiment(GetOr(metadata, "customer_sentiment", PyStr(Neutral))),
   key_phrases        |-> _validate_key_phrases(GetOr(metadata, "key_phrases", PyList)),
   product_version    |-> GetOr(metadata, "product_version", None)]

\* the default dict: failed extraction, empty conversation, exhausted parse
DefaultMetadata(topic) ==
  [topic              |-> topic,
   sentiment          |-> Neutral,
   customer_sentiment |-> Neutral,
   key_phrases        |-> << >>,
   product_version    |-> None]

\* value.get(k), None when the key is absent
Get(value, k) == IF k \in DOMAIN value THEN value[k] ELSE None

\* the per-value normalisation of save_topics_for_date
NormalizeValue(value) ==
  IF IsStr(value)
  THEN [topic                   |-> value.str,
        sentiment               |-> Neutral,
        customer_sentiment      |-> Neutral,
        key_phrases             |-> << >>,
        collar_firmware_version |-> None,
        collar_model            |-> None,
        collar_serial_number    |-> None,
        mobile_app_version      |-> None,
        extracted_at            |-> None]
  ELSE LET migrate == "product_version" \in DOMAIN value /\ value.product_version # None
           keys    == ((DOMAIN value) \ (IF migrate THEN {"product_version"} ELSE {}))
                      \cup {"extracted_at", "collar_firmware_version", "collar_model",
                            "collar_serial_number", "mobile_app_version"}
       IN  [k \in keys |->
              IF k = "collar_model" /\ migrate /\ Get(value, "collar_model") = None
              THEN value.product_version
              ELSE Get(value, k)]

\* TopicStorageService.get_topics_for_date(date) or {}
get_topics_for_date(topics_by_date, date) ==
  IF date \in DOMAIN topics_by_date THEN topics_by_date[date] ELSE EmptyDict

\* TopicStorageService.save_topics_for_date: the new topics_by_date, which
\* _save_topics then writes as a whole to the blob store
save_topics_for_date(topics_by_date, date, topic_mapping) ==
  Update(topics_by_date,
         [d \in {date} |-> [c \in DOMAIN topic_mapping |-> NormalizeValue(topic_mapping[c])]])

\* the stored topic of a value of either format
TopicOf(value) == IF IsStr(value) THEN value.str ELSE value.topic

----------------------------------------------------------------------------
(* The LLM collaborator as seen through ClaudeService.send_message         *)
(* (claude_service.py): a response text, or an exception.                  *)

\* str(e) of the exceptions send_message lets through
Msg429 == <<"429 Client Error: Too Many Requests for url">>

Msg500 == <<"500 Server Error: Internal Server Error for url">>

MsgTimeout == <<"Request to Claude API timed out">>

\* requests.HTTPError raised by raise_for_status, with its status code
HttpError(status, msg) == [kind |-> "http", status |-> status, msg |-> msg]

\* TimeoutError raised by send_message (not a RequestException)
TimeoutErr == [kind |-> "timeout", status |-> 0, msg |-> MsgTimeout]

\* a response whose content parses as a JSON object
JsonResponse(metadata) == [kind |-> "json", status |-> 200, metadata |-> metadata]

\* a response whose content json.loads rejects
BadJsonResponse == [kind |-> "bad_json", status |-> 200, msg |-> << >>]

\* a response whose content parses as JSON, but not as an object: the
\* AttributeError of metadata.get
NotObjectResponse ==
  [kind |-> "not_object", status |-> 200, msg |-> <<"'list' object has no attribute 'get'">>]

\* a response to the topic-only prompt of _extract_topic_fallback
TextResponse(label) == [kind |-> "text", status |-> 200, label |-> label]

\* the parts of a message the rate-limit tests look for:
\* '429' in msg or 'rate_limit' in msg.lower() or 'Too Many Requests' in msg
MentionsRateLimit(msg) == \E i \in DOMAIN msg : msg[i] \in Range(Msg429)

GpsTopic == CONVERSATION_TOPICS[1]

Banana == <<"b","a","n","a","n","a">>

\* the JSON objects the LLM answers with in a batch run
BatchMetadata ==
  { [topic |-> PyStr(l), sentiment |-> PyStr(Negative), customer_sentiment |-> PyStr(Frustrated),
     key_phrases |-> PyListOf(PyStr(<<"G","P","S"," ","n","o","t"," ","a","c","c","u","r","a","t","e">>)),
     product_version |-> Some(<<"v2.1">>)]
    : l \in {Lower(GpsTopic)} }

LLMOutcomes ==
  { JsonResponse(m) : m \in BatchMetadata }
    \cup {BadJsonResponse, HttpError(429, Msg429), HttpError(500, Msg500), TimeoutErr}

FallbackOutcomes ==
  {TextResponse(PyStr(Banana)), HttpError(429, Msg429)}

----------------------------------------------------------------------------
(* State                                                                   *)

VARIABLES
  corpus,                  \* ConversationService: conversation id -> date of its first item
  topic_extraction_state,  \* the module-level progress dict of conversation_routes.py
  file,                    \* the persisted topics blob: date -> (conversation id -> value)
  requests,                \* the /extract-topics requests and where their handlers stand
  workers,                 \* the background threads running _run_topic_extraction
  conversations,           \* ConversationService.conversations
  surveys,                 \* SurveyService.surveys
  rag_process,             \* the query in progress: its plan and what was retrieved for it
  validated,               \* the last label given to _validate_topic, and its result
  storage,                 \* the conversations file of StorageService: its lines, if it exists
  refresh,                 \* the thread running ConversationService.load_conversations
  reader,                  \* a RAGService.process_query and the corpus each of its reads saw
  extraction               \* one call of extract_conversation_metadata and what it did so far

batchVars == <<corpus, topic_extraction_state, file, requests, workers>>

queryVars == <<conversations, surveys, rag_process>>

loadVars == <<storage, refresh, reader>>

nonBatchVars == <<queryVars, validated, loadVars, extraction>>

nonQueryVars == <<batchVars, validated, loadVars, extraction>>

nonTopicVars == <<batchVars, queryVars, loadVars, extraction>>

Now == <<"now">>

\* no load of the corpus and no query reading it are in progress
NoRefresh ==
  [pc |-> "idle", content |-> << >>, raw |-> << >>, old |-> << >>, built |-> << >>,
   count |-> 0, readable |-> TRUE]

NoReader ==
  [pc |-> "idle", plan |-> << >>, term |-> 0, relevant_data |-> << >>, data |-> << >>,
   reads |-> << >>, mid_refresh |-> FALSE]

NoLoad == storage = None /\ refresh = NoRefresh /\ reader = NoReader

\* no call of extract_conversation_metadata is being followed
NoExtraction ==
  [pc |-> "idle", max_retries |-> 0, attempt |-> 0, calls |-> 0, rate_waits |-> << >>,
   all_rate_limited |-> TRUE, fallback_called |-> FALSE, result |-> << >>, exc |-> << >>,
   batch |-> "pending", saved |-> << >>]

\* topic_extraction_state as the module defines it
InitialState ==
  [is_running          |-> FALSE,
   current             |-> 0,
   total               |-> 0,
   processed_count     |-> 0,
   skipped_count       |-> 0,
   failed_count        |-> 0,
   start_time          |-> None,
   end_time            |-> None,
   error               |-> None,
   progress_percentage |-> 0,
   start_date          |-> None,
   end_date            |-> None,
   dates_processed     |-> << >>]

\* a thread that has not been started; the fields are the locals of
\* _run_topic_extraction and batch_extract_topics, plus history fields that
\* no code reads: loaded (the blob as the thread loaded it), pred (the
\* threads that had ended at that moment),
\* llm_called (the conversations an LLM call was issued for),
\* rate_limited_on (the conversation whose extraction raised the rate-limit
\* error), succeeded and failed (the conversations of the run whose
\* extraction returned a record, and those it ended for with an error that
\* is no rate-limit error)
NoWorker ==
  [pc                       |-> "none",
   conversations            |-> {},
   dates                    |-> << >>,
   di                       |-> 0,
   scan                     |-> << >>,
   topics_by_date           |-> EmptyDict,
   conversations_to_process |-> << >>,
   idx                      |-> 0,
   attempt                  |-> 0,
   date_topic_mapping       |-> EmptyDict,
   date_last_save           |-> 0,
   all_extracted_mapping    |-> EmptyDict,
   total_processed          |-> 0,
   total_skipped            |-> 0,
   current_count            |-> 0,
   dates_processed          |-> << >>,
   success_count            |-> 0,
   failed_count             |-> 0,
   exc                      |-> None,
   loaded                   |-> EmptyDict,
   llm_called               |-> {},
   rate_limited_on          |-> None,
   pred                     |-> {},
   succeeded                |-> 0,
   failed                   |-> {}]

StoredTopic == CONVERSATION_TOPICS[3]

\* a record as an earlier run left it in the blob
StoredDict == NormalizeValue(DefaultMetadata(StoredTopic))

\* the blob in which the conversations of pre are stored, pre[c] giving the format
InitialFile(corp, pre) ==
  LET ds == { corp[c] : c \in { x \in Convs : pre[x] # "absent" } }
  IN  [d \in ds |->
         [c \in { x \in Convs : corp[x] = d /\ pre[x] # "absent" } |->
            IF pre[c] = "legacy" THEN LegacyValue(StoredTopic) ELSE StoredDict]]

\* the corpus, the blob and the progress state when the service is up
ServiceInit ==
  /\ corpus \in { f \in [Convs -> Dates] : \A c \in Convs : c > 1 => f[c - 1] <= f[c] }
  /\ topic_extraction_state = InitialState
  /\ \E pre \in [Convs -> {"absent", "legacy", "dict"}] :
       /\ \A c \in Convs : c > 1 => pre[c] = "absent"
       /\ file = InitialFile(corpus, pre)
  /\ workers = [r \in Requests |-> NoWorker]
  /\ conversations = << >>
  /\ surveys = << >>
  /\ rag_process = None
  /\ validated = None
  /\ NoLoad
  /\ extraction = NoExtraction

BatchInit ==
  /\ ServiceInit
  /\ requests = [r \in Requests |-> [pc |-> "new"]]

----------------------------------------------------------------------------
(* POST /extract-topics (conversation_routes.py, extract_topics)           *)

\* the conversations whose first item falls in [start_date, end_date]
get_conversations_by_date_range(start_date, end_date) ==
  { c \in DOMAIN corpus : corpus[c] >= start_date /\ corpus[c] <= end_date }

\* the request bodies: no dates at all, or a date range
RequestBodies ==
  {None} \cup { Some(<<a, b>>) : a \in Dates, b \in Dates }

\* the test on is_running that opens the handler
ExtractTopicsGuard(r) ==
  /\ requests[r].pc = "new"
  /\ UNCHANGED nonBatchVars
  /\ requests' = [requests EXCEPT ![r].pc =
                    IF topic_extraction_state.is_running THEN "rejected" ELSE "checked"]
  /\ UNCHANGED <<corpus, topic_extraction_state, file, workers>>

\* the keys of conversations_by_date in insertion order
RECURSIVE DatesInOrder(_)
DatesInOrder(cs) ==
  IF cs = << >> THEN << >>
  ELSE LET rest == DatesInOrder(Tail(cs))
           d    == corpus[Head(cs)]
       IN  <<d>> \o SelectSeq(rest, LAMBDA x : x # d)

\* the conversations of date d among cs, in dict order
ConversationsOfDate(cs, d) == SelectSeq(SortedSeq(cs), LAMBDA c : corpus[c] = d)

\* the rest of the handler: body validation, corpus lookup, state reset and
\* the start of the background thread
ExtractTopicsStart(r) ==
  /\ requests[r].pc = "checked"
  /\ UNCHANGED nonBatchVars
  /\ \E body \in RequestBodies :
       IF body = None
       THEN /\ requests' = [requests EXCEPT ![r].pc = "returned"]
            /\ UNCHANGED <<corpus, topic_extraction_state, file, workers>>
       ELSE LET start_date == body[1][1]
                end_date   == body[1][2]
                conversations_by_id == get_conversations_by_date_range(start_date, end_date)
            IN  IF conversations_by_id = {}
                THEN /\ requests' = [requests EXCEPT ![r].pc = "returned"]
                     /\ UNCHANGED <<corpus, topic_extraction_state, file, workers>>
                ELSE /\ topic_extraction_state' =
                          [topic_extraction_state EXCEPT
                             !.is_running = TRUE,
                             !.current = 0,
                             !.total = Cardinality(conversations_by_id),
                             !.processed_count = 0,
                             !.skipped_count = 0,
                             !.failed_count = 0,
                             !.start_time = Now,
                             !.end_time = None,
                             !.error = None,
                             !.progress_percentage = 0,
                             !.start_date = Some(start_date),
                             !.end_date = Some(end_date),
                             !.dates_processed = << >>]
                     /\ workers' = [workers EXCEPT ![r] =
                          [NoWorker EXCEPT !.pc = "init", !.conversations = conversations_by_id]]
                     /\ requests' = [requests EXCEPT ![r].pc = "started"]
                     /\ UNCHANGED <<corpus, file>>

----------------------------------------------------------------------------
(* The background thread (_run_topic_extraction)                           *)

_update_extraction_progress(st, current, total, processed, skipped, failed) ==
  [st EXCEPT !.current = current,
             !.total = total,
             !.processed_count = processed,
             !.skipped_count = skipped,
             !.failed_count = failed,
             !.progress_percentage = IF total > 0 THEN (current * 100) \div total ELSE @]

CurrentDate(w) == w.dates[w.di]

\* the head of the loop over conversations_by_date: the next date, or the
\* end of the loop
EnterDate(w, di) ==
  IF di <= Len(w.dates)
  THEN [w EXCEPT !.pc = "scan", !.di = di,
                 !.scan = ConversationsOfDate(w.conversations, w.dates[di]),
                 !.conversations_to_process = << >>]
  ELSE [w EXCEPT !.pc = "fin1", !.di = di]

\* lines 332-365: the services are built (TopicStorageService loads the
\* blob), the conversations are grouped by date, the counters start at 0
WorkerInit(r) ==
  /\ workers[r].pc = "init"
  /\ UNCHANGED nonBatchVars
  /\ workers' = [workers EXCEPT ![r] =
       EnterDate([workers[r] EXCEPT
                    !.topics_by_date = file,
                    !.loaded = file,
                    !.pred = { q \in Requests : workers[q].pc = "done" },
                    !.dates = DatesInOrder(SortedSeq(workers[r].conversations))], 1)]
  /\ UNCHANGED <<corpus, topic_extraction_state, file, requests>>

\* lines 371-378 for the conversations cs still to visit: each is counted
\* and either skipped (its record is in existing_topics) or queued
RECURSIVE ScanLoop(_, _, _)
ScanLoop(w, cs, existing_topics) ==
  IF cs = << >> THEN w
  ELSE LET c    == Head(cs)
           skip == c \in DOMAIN existing_topics
       IN  ScanLoop([w EXCEPT
                       !.current_count = @ + 1,
                       !.total_skipped = IF skip THEN @ + 1 ELSE @,
                       !.all_extracted_mapping =
                           IF skip THEN Update(@, [k \in {c} |-> existing_topics[c]]) ELSE @,
                       !.conversations_to_process = IF skip THEN @ ELSE Append(@, c)],
                    Tail(cs), existing_topics)

\* a scan that finds no stored record for the date
no_existing_topics(w) == EmptyDict

\* the records stored for the date the thread is at
existing_topics(w) == get_topics_for_date(w.topics_by_date, CurrentDate(w))

\* lines 367-385: the conversations of the date are counted and skipped or
\* queued, the progress is published, and the date is left (nothing to
\* extract) or its extraction begins
ScanDate(r) ==
  LET w  == workers[r]
      w1 == ScanLoop(w, w.scan, existing_topics(w))
      w2 == IF w1.conversations_to_process = << >>
            THEN EnterDate([w1 EXCEPT !.dates_processed = Append(@, CurrentDate(w))], w.di + 1)
            ELSE [w1 EXCEPT !.pc = "extract", !.scan = << >>, !.idx = 1, !.attempt = 0,
                            !.date_topic_mapping = EmptyDict, !.date_last_save = 0,
                            !.success_count = 0, !.failed_count = 0]
  IN  /\ w.pc = "scan"
      /\ UNCHANGED nonBatchVars
      /\ workers' = [workers EXCEPT ![r] = w2]
      /\ topic_extraction_state' =
           _update_extraction_progress(topic_extraction_state, w1.current_count,
             Cardinality(w.conversations), w1.total_processed, w1.total_skipped, 0)
      /\ UNCHANGED <<corpus, file, requests>>

----------------------------------------------------------------------------
(* extract_conversation_metadata and batch_extract_topics                  *)
(* (topic_extraction_service.py)                                           *)

\* a backoff that grows by one second per attempt
Linear(n) == n + 1

\* 2 ** attempt
RECURSIVE Pow2(_)
Pow2(n) == IF n <= 0 THEN 1 ELSE 2 * Pow2(n - 1)

\* what one pass of the retry loop does with the outcome of its LLM call:
\* return a record, go round again after a wait, call the topic-only
\* fallback, or raise
AttemptResultFor(outcome, attempt, max_retries) ==
  LET last == ~(attempt < max_retries - 1)
      rate == [act |-> IF last THEN "raise" ELSE "retry", rate_limit |-> TRUE,
               wait |-> Min(Pow2(attempt), 60),
               msg |-> <<"Rate limit exceeded. Claude API is rate limiting requests. Details:">>
                         \o outcome.msg]
  IN  CASE outcome.kind = "json" ->
             [act |-> "return", rate_limit |-> FALSE, wait |-> 0, msg |-> << >>]
        [] outcome.kind = "bad_json" ->
             [act |-> IF last THEN "fallback" ELSE "retry", rate_limit |-> FALSE,
              wait |-> 0, msg |-> << >>]
        [] outcome.kind = "http" ->
             IF outcome.status = 429 \/ MentionsRateLimit(outcome.msg)
             THEN rate
             ELSE [act |-> IF last THEN "raise" ELSE "retry", rate_limit |-> FALSE,
                   wait |-> Min(Pow2(attempt), 10),
                   msg |-> <<"HTTP error:">> \o outcome.msg]
        [] outcome.kind \in {"timeout", "not_object"} ->
             IF MentionsRateLimit(outcome.msg)
             THEN rate
             ELSE [act |-> IF last THEN "raise" ELSE "retry", rate_limit |-> FALSE,
                   wait |-> Min(Pow2(attempt), 5),
                   msg |-> <<"Failed to extract metadata after attempts:">> \o outcome.msg]

\* the loop as batch_extract_topics runs it, with the default max_retries
AttemptResult(outcome, attempt) == AttemptResultFor(outcome, attempt, MaxRetries)

\* _extract_topic_fallback: the topic of the answer, "Other" on any exception
_extract_topic_fallback(outcome) ==
  IF outcome.kind = "text" THEN _validate_topic(outcome.label) ELSE Other

\* a callback that collects the records and leaves the saving to the end of
\* the date
date_incremental_save_unsaved(w, c, metadata) ==
  [w |-> [w EXCEPT
            !.date_topic_mapping = Update(@, [k \in {c} |-> metadata]),
            !.all_extracted_mapping = Update(@, [k \in {c} |-> metadata]),
            !.total_processed = @ + 1,
            !.current_count = @ + 1],
   file |-> file]

\* the nested date_incremental_save of _run_topic_extraction, called by
\* batch_extract_topics with the record of conversation c; the record gives
\* the thread and the blob after the call
date_incremental_save(w, c, metadata) ==
  LET date     == CurrentDate(w)
      dtm      == Update(w.date_topic_mapping, [k \in {c} |-> metadata])
      save     == Cardinality(DOMAIN dtm) - w.date_last_save >= SaveEvery
      existing == Update(get_topics_for_date(w.topics_by_date, date), dtm)
      tbd      == save_topics_for_date(w.topics_by_date, date, existing)
      \* the saved dicts are normalised in place
      norm(m)  == [k \in DOMAIN m |->
                     IF k \in DOMAIN existing /\ ~IsStr(m[k]) THEN NormalizeValue(m[k]) ELSE m[k]]
      aem      == Update(w.all_extracted_mapping, [k \in {c} |-> metadata])
  IN  [w |-> [w EXCEPT
                !.date_topic_mapping = IF save THEN norm(dtm) ELSE dtm,
                !.all_extracted_mapping = IF save THEN norm(aem) ELSE aem,
                !.total_processed = @ + 1,
                !.current_count = @ + 1,
                !.topics_by_date = IF save THEN tbd ELSE @,
                !.date_last_save = IF save THEN Cardinality(DOMAIN dtm) ELSE @],
       file |-> IF save THEN tbd ELSE file]

\* the end of one pass of the loop of batch_extract_topics
NextConversation(w) ==
  IF w.idx < Len(w.conversations_to_process)
  THEN [w EXCEPT !.idx = @ + 1, !.attempt = 0]
  ELSE [w EXCEPT !.pc = "datesave"]

\* conversation c got the record metadata (extracted, or the default one
\* after a failure): the callback runs and the loop goes on
Recorded(r, w, c, metadata) ==
  LET res == date_incremental_save(w, c, metadata)
  IN  /\ workers' = [workers EXCEPT ![r] = NextConversation(res.w)]
      /\ file' = res.file
      /\ topic_extraction_state' =
           _update_extraction_progress(topic_extraction_state, res.w.current_count,
             Cardinality(w.conversations), res.w.total_processed, res.w.total_skipped, 0)

\* a batch_extract_topics whose except clause has no rate-limit branch: every
\* exception is a per-item failure
BatchExceptPerItem(r, w, c, msg) ==
  Recorded(r, [w EXCEPT !.failed_count = @ + 1, !.failed = @ \cup {c}], c, DefaultMetadata(Other))

\* the except clause of batch_extract_topics for the exception message msg
BatchExcept(r, w, c, msg) ==
  LET w1 == [w EXCEPT !.failed_count = @ + 1]
  IN  IF MentionsRateLimit(msg)
      THEN /\ workers' = [workers EXCEPT ![r] =
                [w1 EXCEPT !.pc = "exc1",
                           !.exc = Some(<<"Rate limit exceeded after processing. Error:">> \o msg)]]
           /\ UNCHANGED <<file, topic_extraction_state>>
      ELSE Recorded(r, [w1 EXCEPT !.failed = @ \cup {c}], c, DefaultMetadata(Other))

\* one LLM call of extract_conversation_metadata for the conversation at
\* idx, answered with one of outcomes, and everything the thread does until
\* its next LLM call
LLMCallWith(r, outcomes) ==
  LET w == workers[r]
      c == w.conversations_to_process[w.idx]
      wc == [w EXCEPT !.llm_called = @ \cup {c}]
  IN  /\ w.pc = "extract"
      /\ UNCHANGED nonBatchVars
      /\ \E outcome \in outcomes :
           LET res == AttemptResult(outcome, w.attempt)
           IN  CASE res.act = "return" ->
                      Recorded(r, [wc EXCEPT !.success_count = @ + 1, !.succeeded = @ + 1], c,
                               ExtractedMetadata(outcome.metadata))
                 [] res.act = "retry" ->
                      /\ workers' = [workers EXCEPT ![r] = [wc EXCEPT !.attempt = @ + 1]]
                      /\ UNCHANGED <<file, topic_extraction_state>>
                 [] res.act = "fallback" ->
                      /\ workers' = [workers EXCEPT ![r] = [wc EXCEPT !.pc = "fallback"]]
                      /\ UNCHANGED <<file, topic_extraction_state>>
                 [] res.act = "raise" ->
                      BatchExcept(r, [wc EXCEPT !.rate_limited_on =
                                        IF res.rate_limit THEN Some(c) ELSE @], c, res.msg)
      /\ UNCHANGED <<corpus, requests>>

LLMCall(r) == LLMCallWith(r, LLMOutcomes)

\* the LLM call of _extract_topic_fallback after the last unparsable answer
FallbackCall(r) ==
  LET w == workers[r]
      c == w.conversations_to_process[w.idx]
  IN  /\ w.pc = "fallback"
      /\ UNCHANGED nonBatchVars
      /\ \E outcome \in FallbackOutcomes :
           Recorded(r, [w EXCEPT !.pc = "extract", !.success_count = @ + 1,
                                 !.succeeded = @ + 1], c,
                    DefaultMetadata(_extract_topic_fallback(outcome)))
      /\ UNCHANGED <<corpus, requests>>

\* lines 412-417: the records of the date are saved and the date is done
DateSave(r) ==
  LET w    == workers[r]
      date == CurrentDate(w)
      existing == Update(get_topics_for_date(w.topics_by_date, date), w.date_topic_mapping)
      tbd  == save_topics_for_date(w.topics_by_date, date, existing)
      save == w.date_topic_mapping # EmptyDict
      w1   == [w EXCEPT !.topics_by_date = IF save THEN tbd ELSE @,
                        !.date_topic_mapping =
                            IF save THEN [k \in DOMAIN @ |-> NormalizeValue(@[k])] ELSE @,
                        !.dates_processed = Append(@, date)]
  IN  /\ w.pc = "datesave"
      /\ UNCHANGED nonBatchVars
      /\ workers' = [workers EXCEPT ![r] = EnterDate(w1, w.di + 1)]
      /\ file' = IF save THEN tbd ELSE file
      /\ UNCHANGED <<corpus, topic_extraction_state, requests>>

\* lines 419-421, one store each
WorkerFinish(r) ==
  LET w == workers[r]
  IN  /\ w.pc \in {"fin1", "fin2", "fin3"}
      /\ UNCHANGED nonBatchVars
      /\ topic_extraction_state' =
           CASE w.pc = "fin1" -> [topic_extraction_state EXCEPT !.end_time = Now]
             [] w.pc = "fin2" -> [topic_extraction_state EXCEPT !.dates_processed = w.dates_processed]
             [] w.pc = "fin3" -> [topic_extraction_state EXCEPT !.is_running = FALSE]
      /\ workers' = [workers EXCEPT ![r].pc =
           CASE w.pc = "fin1" -> "fin2" [] w.pc = "fin2" -> "fin3" [] w.pc = "fin3" -> "done"]
      /\ UNCHANGED <<corpus, file, requests>>

\* an except clause that records the error and leaves is_running as it is
WorkerFailStillRunning(r) ==
  LET w == workers[r]
  IN  /\ w.pc \in {"exc1", "exc2", "exc3"}
      /\ UNCHANGED nonBatchVars
      /\ topic_extraction_state' =
           CASE w.pc = "exc1" -> [topic_extraction_state EXCEPT !.error = w.exc]
             [] w.pc = "exc2" -> topic_extraction_state
             [] w.pc = "exc3" -> [topic_extraction_state EXCEPT !.end_time = Now]
      /\ workers' = [workers EXCEPT ![r].pc =
           CASE w.pc = "exc1" -> "exc2" [] w.pc = "exc2" -> "exc3" [] w.pc = "exc3" -> "done"]
      /\ UNCHANGED <<corpus, file, requests>>

\* lines 425-430, the except clause of the thread, one store each
WorkerFail(r) ==
  LET w == workers[r]
  IN  /\ w.pc \in {"exc1", "exc2", "exc3"}
      /\ UNCHANGED nonBatchVars
      /\ topic_extraction_state' =
           CASE w.pc = "exc1" -> [topic_extraction_state EXCEPT !.error = w.exc]
             [] w.pc = "exc2" -> [topic_extraction_state EXCEPT !.is_running = FALSE]
             [] w.pc = "exc3" -> [topic_extraction_state EXCEPT !.end_time = Now]
      /\ workers' = [workers EXCEPT ![r].pc =
           CASE w.pc = "exc1" -> "exc2" [] w.pc = "exc2" -> "exc3" [] w.pc = "exc3" -> "done"]
      /\ UNCHANGED <<corpus, file, requests>>

WorkerStep(r) ==
  \/ WorkerInit(r)
  \/ ScanDate(r)
  \/ LLMCall(r)
  \/ FallbackCall(r)
  \/ DateSave(r)
  \/ WorkerFinish(r)
  \/ WorkerFail(r)

Next ==
  \/ \E r \in Requests : ExtractTopicsGuard(r)
  \/ \E r \in Requests : ExtractTopicsStart(r)
  \/ \E r \in Requests : WorkerInit(r)
  \/ \E r \in Requests : ScanDate(r)
  \/ \E r \in Requests : LLMCall(r)
  \/ \E r \in Requests : FallbackCall(r)
  \/ \E r \in Requests : DateSave(r)
  \/ \E r \in Requests : WorkerFinish(r)
  \/ \E r \in Requests : WorkerFail(r)

vars == <<batchVars, queryVars, validated, loadVars, extraction>>

Init == BatchInit

Spec == Init /\ [][Next]_vars

\* the service when every request but the first has been answered without
\* starting a run
FairInit ==
  /\ ServiceInit
  /\ requests = [r \in Requests |-> [pc |-> IF r = 1 THEN "new" ELSE "returned"]]

\* one request over a corpus with more conversations on one date than the
\* callback collects before it saves
ManyConvs == 11

SaveInit ==
  /\ corpus = [c \in 1..ManyConvs |-> 1]
  /\ topic_extraction_state = InitialState
  /\ file = EmptyDict
  /\ workers = [r \in Requests |-> NoWorker]
  /\ requests = [r \in Requests |-> [pc |-> IF r = 1 THEN "new" ELSE "returned"]]
  /\ conversations = << >>
  /\ surveys = << >>
  /\ rag_process = None
  /\ validated = None
  /\ NoLoad
  /\ extraction = NoExtraction

\* the answers of the LLM in that run: a JSON object, text that is no JSON,
\* a rate limit
SaveOutcomes ==
  { JsonResponse(m) : m \in BatchMetadata } \cup {BadJsonResponse, HttpError(429, Msg429)}

SaveNext ==
  \/ \E r \in Requests : ExtractTopicsGuard(r)
  \/ \E r \in Requests : ExtractTopicsStart(r)
  \/ \E r \in Requests : WorkerInit(r)
  \/ \E r \in Requests : ScanDate(r)
  \/ \E r \in Requests : LLMCallWith(r, SaveOutcomes)
  \/ \E r \in Requests : FallbackCall(r)
  \/ \E r \in Requests : DateSave(r)
  \/ \E r \in Requests : WorkerFinish(r)
  \/ \E r \in Requests : WorkerFail(r)

SaveSpec == SaveInit /\ [][SaveNext]_vars

\* a started thread keeps running: every LLM call returns or raises, and
\* the interpreter schedules every thread that can take a step
FairSpec == FairInit /\ [][Next]_vars /\ \A r \in Requests : WF_vars(WorkerStep(r))

----------------------------------------------------------------------------
(* One call of extract_conversation_metadata, followed attempt by attempt  *)
(* (topic_extraction_service.py, lines 47-220)                             *)

\* a max_retries long enough for the backoff to reach its cap of 60 s
LongRetries == 8

RetryLimits == {MaxRetries, LongRetries}

GpsPhrase == PyStr(<<"G","P","S"," ","o","f","f">>)

\* the JSON objects the LLM may answer with: valid values, values the
\* validators map, values of the wrong type, missing keys, a long list
ExtractMetadata ==
  BatchMetadata \cup
  { [topic |-> PyStr(GpsTopic), sentiment |-> PyStr(<<"v","e","r","y"," ","G","o","o","d">>),
     customer_sentiment |-> PyStr(<<"m","a","d">>),
     key_phrases |-> PyListFrom(<<GpsPhrase, PyStr(<<" ">>), PyInt(7), GpsPhrase, GpsPhrase,
                                  GpsPhrase, GpsPhrase>>),
     product_version |-> None],
    [topic |-> PyStr(Banana), sentiment |-> PyInt(5), customer_sentiment |-> PyNull,
     key_phrases |-> PyStr(<<"G","P","S">>), product_version |-> None],
    [topic |-> PyNull],
    [topic |-> PyStr(GpsTopic), sentiment |-> PyStr(<<"m","e","h">>),
     customer_sentiment |-> PyStr(<<"W","o","r","r","i","e","d">>),
     key_phrases |-> PyListFrom(<<GpsPhrase, GpsPhrase, GpsPhrase, GpsPhrase, GpsPhrase,
                                  GpsPhrase>>),
     product_version |-> Some(<<"v2.1">>)] }

ExtractOutcomes ==
  { JsonResponse(m) : m \in ExtractMetadata }
    \cup {BadJsonResponse, NotObjectResponse, HttpError(429, Msg429), HttpError(500, Msg500),
          TimeoutErr}

ExtractInit ==
  /\ extraction = NoExtraction
  /\ validated = None
  /\ conversations = << >>
  /\ surveys = << >>
  /\ rag_process = None
  /\ corpus = [c \in Convs |-> 1]
  /\ topic_extraction_state = InitialState
  /\ file = EmptyDict
  /\ requests = [r \in Requests |-> [pc |-> "new"]]
  /\ workers = [r \in Requests |-> NoWorker]
  /\ NoLoad

nonExtractVars == <<batchVars, queryVars, validated, loadVars>>

\* the call: lines 58-65 return the default record for an empty conversation
ExtractStart ==
  /\ extraction.pc = "idle"
  /\ \E max_retries \in RetryLimits, has_items \in BOOLEAN :
       extraction' =
         IF has_items
         THEN [extraction EXCEPT !.pc = "call", !.max_retries = max_retries]
         ELSE [extraction EXCEPT !.pc = "returned", !.max_retries = max_retries,
                                 !.result = Some(DefaultMetadata(Other))]
  /\ UNCHANGED nonExtractVars

\* one pass of the loop of lines 136-211: the LLM call and what follows it
ExtractAttempt ==
  /\ extraction.pc = "call"
  /\ \E outcome \in ExtractOutcomes :
       \E res \in {AttemptResultFor(outcome, extraction.attempt, extraction.max_retries)} :
         LET e == [extraction EXCEPT
                     !.calls = @ + 1,
                     !.all_rate_limited = @ /\ res.rate_limit,
                     !.rate_waits =
                        IF res.act = "retry" /\ res.rate_limit
                        THEN Append(@, [attempt |-> extraction.attempt, wait |-> res.wait])
                        ELSE @]
         IN  extraction' =
               CASE res.act = "return" ->
                      [e EXCEPT !.pc = "returned",
                                !.result = Some(ExtractedMetadata(outcome.metadata))]
                 [] res.act = "retry"    -> [e EXCEPT !.attempt = @ + 1]
                 [] res.act = "fallback" -> [e EXCEPT !.pc = "fallback"]
                 [] res.act = "raise"    -> [e EXCEPT !.pc = "raised", !.exc = Some(res.msg)]
  /\ UNCHANGED nonExtractVars

\* a fallback that asks again when its LLM call raises
ExtractFallbackAgain ==
  /\ extraction.pc = "fallback"
  /\ \E outcome \in FallbackOutcomes :
       extraction' =
         IF outcome.kind = "text"
         THEN [extraction EXCEPT
                 !.pc = "returned", !.calls = @ + 1, !.fallback_called = TRUE,
                 !.result = Some(DefaultMetadata(_extract_topic_fallback(outcome)))]
         ELSE [extraction EXCEPT !.calls = @ + 1, !.fallback_called = TRUE]
  /\ UNCHANGED nonExtractVars

\* lines 166-174: the LLM call of _extract_topic_fallback and the record
\* built around its topic
ExtractFallback ==
  /\ extraction.pc = "fallback"
  /\ \E outcome \in FallbackOutcomes :
       extraction' = [extraction EXCEPT
                        !.pc = "returned", !.calls = @ + 1, !.fallback_called = TRUE,
                        !.result = Some(DefaultMetadata(_extract_topic_fallback(outcome)))]
  /\ UNCHANGED nonExtractVars

\* what batch_extract_topics does with the end of the call (lines 352-399):
\* the record goes to incremental_save_callback; after an exception that
\* is not a rate limit the default record goes there; a rate limit ends
\* the batch
ExtractCallback ==
  /\ extraction.pc \in {"returned", "raised"}
  /\ extraction.batch = "pending"
  /\ extraction' =
       IF extraction.pc = "returned"
       THEN [extraction EXCEPT !.batch = "saved", !.saved = extraction.result]
       ELSE IF MentionsRateLimit(extraction.exc[1])
            THEN [extraction EXCEPT !.batch = "aborted"]
            ELSE [extraction EXCEPT !.batch = "saved", !.saved = Some(DefaultMetadata(Other))]
  /\ UNCHANGED nonExtractVars

ExtractNext ==
  \/ ExtractStart
  \/ ExtractAttempt
  \/ ExtractFallback
  \/ ExtractCallback

ExtractSpec == ExtractInit /\ [][ExtractNext]_vars

\* the thread is scheduled, sleeps end, and send_message returns or raises
\* within its timeout
ExtractFairSpec ==
  ExtractInit /\ [][ExtractNext]_vars /\ WF_vars(ExtractAttempt) /\ WF_vars(ExtractFallback)

----------------------------------------------------------------------------
(* Strings                                                                 *)

\* s[:n] of a Python sequence, n of either sign
PySlice(s, n) ==
  IF n >= 0 THEN Take(s, n) ELSE Take(s, Max(0, Len(s) + n))

\* s.split(): the maximal runs of non-blank characters, in order
RECURSIVE SplitFrom(_, _, _)
SplitFrom(s, i, word) ==
  IF i > Len(s) THEN (IF word = << >> THEN << >> ELSE <<word>>)
  ELSE IF s[i] = " "
       THEN (IF word = << >> THEN << >> ELSE <<word>>) \o SplitFrom(s, i + 1, << >>)
       ELSE SplitFrom(s, i + 1, Append(word, s[i]))

Split(s) == SplitFrom(s, 1, << >>)

\* ' '.join(parts)
RECURSIVE Join(_)
Join(parts) ==
  IF parts = << >> THEN << >>
  ELSE IF Len(parts) = 1 THEN parts[1]
  ELSE parts[1] \o <<" ">> \o Join(Tail(parts))

----------------------------------------------------------------------------
(* Semantic search (conversation_service.py, survey_service.py)            *)

\* concept_mappings of semantic_search_conversations
conversation_concept_mappings ==
     (<<"c", "o", "m", "p", "l", "a", "i", "n", "t">> :>
       {<<"c", "o", "m", "p", "l", "a", "i", "n", "t">>,
        <<"i", "s", "s", "u", "e">>,
        <<"p", "r", "o", "b", "l", "e", "m">>,
        <<"c", "o", "n", "c", "e", "r", "n">>,
        <<"d", "i", "s", "a", "p", "p", "o", "i", "n", "t", "e", "d">>,
        <<"f", "r", "u", "s", "t", "r", "a", "t", "e", "d">>,
        <<"u", "n", "h", "a", "p", "p", "y">>,
        <<"u", "n", "s", "a", "t", "i", "s", "f", "i", "e", "d">>})
  @@ (<<"r", "e", "f", "u", "n", "d">> :>
       {<<"r", "e", "f", "u", "n", "d">>,
        <<"r", "e", "t", "u", "r", "n">>,
        <<"m", "o", "n", "e", "y", " ", "b", "a", "c", "k">>,
        <<"r", "e", "i", "m", "b", "u", "r", "s", "e", "m", "e", "n", "t">>,
        <<"c", "r", "e", "d", "i", "t">>,
        <<"c", "o", "m", "p", "e", "n", "s", "a", "t", "i", "o", "n">>})
  @@ (<<"q", "u", "a", "l", "i", "t", "y">> :>
       {<<"q", "u", "a", "l", "i", "t", "y">>,
        <<"d", "e", "f", "e", "c", "t", "i", "v", "e">>,
        <<"b", "r", "o", "k", "e", "n">>,
        <<"m", "a", "l", "f", "u", "n", "c", "t", "i", "o", "n">>,
        <<"f", "a", "u", "l", "t", "y">>,
        <<"p", "o", "o", "r", " ", "q", "u", "a", "l", "i", "t", "y">>,
        <<"b", "a", "d", " ", "q", "u", "a", "l", "i", "t", "y">>})
  @@ (<<"s", "a", "f", "e", "t", "y">> :>
       {<<"s", "a", "f", "e", "t", "y">>,
        <<"u", "n", "s", "a", "f", "e">>,
        <<"d", "a", "n", "g", "e", "r", "o", "u", "s">>,
        <<"h", "a", "z", "a", "r", "d">>,
        <<"r", "i", "s", "k">>,
        <<"h", "a", "r", "m", "f", "u", "l">>})
  @@ (<<"s", "h", "i", "p", "p", "i", "n", "g">> :>
       {<<"s", "h", "i", "p", "p", "i", "n", "g">>,
        <<"d", "e", "l", "i", "v", "e", "r", "y">>,
        <<"s", "h", "i", "p", "p", "e", "d">>,
        <<"t", "r", "a", "c", "k", "i", "n", "g">>,
        <<"p", "a", "c", "k", "a", "g", "e">>,
        <<"m", "a", "i", "l">>})
  @@ (<<"b", "a", "t", "t", "e", "r", "y">> :>
       {<<"b", "a", "t", "t", "e", "r", "y">>,
        <<"c", "h", "a", "r", "g", "e">>,
        <<"c", "h", "a", "r", "g", "i", "n", "g">>,
        <<"p", "o", "w", "e", "r">>,
        <<"d", "e", "a", "d", " ", "b", "a", "t", "t", "e", "r", "y">>,
        <<"l", "o", "w", " ", "b", "a", "t", "t", "e", "r", "y">>})
  @@ (<<"g", "p", "s">> :>
       {<<"g", "p", "s">>,
        <<"l", "o", "c", "a", "t", "i", "o", "n">>,
        <<"t", "r", "a", "c", "k", "i", "n", "g">>,
        <<"c", "o", "o", "r", "d", "i", "n", "a", "t", "e", "s">>,
        <<"p", "o", "s", "i", "t", "i", "o", "n">>,
        <<"m", "a", "p">>})
  @@ (<<"a", "p", "p">> :>
       {<<"a", "p", "p">>,
        <<"a", "p", "p", "l", "i", "c", "a", "t", "i", "o", "n">>,
        <<"s", "o", "f", "t", "w", "a", "r", "e">>,
        <<"m", "o", "b", "i", "l", "e">>,
        <<"p", "h", "o", "n", "e">>,
        <<"d", "e", "v", "i", "c", "e">>})
  @@ (<<"c", "u", "s", "t", "o", "m", "e", "r", "_", "s", "e", "r", "v", "i", "c", "e">> :>
       {<<"c", "u", "s", "t", "o", "m", "e", "r", " ", "s", "e", "r", "v", "i", "c", "e">>,
        <<"s", "u", "p", "p", "o", "r", "t">>,
        <<"h", "e", "l", "p">>,
        <<"a", "s", "s", "i", "s", "t", "a", "n", "c", "e">>,
        <<"a", "g", "e", "n", "t">>,
        <<"r", "e", "p", "r", "e", "s", "e", "n", "t", "a", "t", "i", "v", "e">>})
  @@ (<<"t", "o", "p", "i", "c">> :>
       {<<"t", "o", "p", "i", "c">>,
        <<"t", "h", "e", "m", "e">>,
        <<"s", "u", "b", "j", "e", "c", "t">>,
        <<"m", "a", "t", "t", "e", "r">>,
        <<"s", "u", "b", "j", "e", "c", "t", " ", "m", "a", "t", "t", "e", "r">>})
  @@ (<<"c", "o", "m", "m", "o", "n">> :>
       {<<"c", "o", "m", "m", "o", "n">>,
        <<"f", "r", "e", "q", "u", "e", "n", "t">>,
        <<"o", "f", "t", "e", "n">>,
        <<"t", "y", "p", "i", "c", "a", "l">>,
        <<"u", "s", "u", "a", "l">>,
        <<"r", "e", "g", "u", "l", "a", "r">>})

\* concept_mappings of semantic_search_surveys
survey_concept_mappings ==
     (<<"c", "a", "n", "c", "e", "l">> :>
       {<<"c", "a", "n", "c", "e", "l">>,
        <<"c", "a", "n", "c", "e", "l", "l", "e", "d">>,
        <<"c", "a", "n", "c", "e", "l", "l", "a", "t", "i", "o", "n">>,
        <<"c", "a", "n", "c", "e", "l", "e", "d">>,
        <<"s", "t", "o", "p", "p", "e", "d">>,
        <<"e", "n", "d", "e", "d">>})
  @@ (<<"r", "e", "a", "s", "o", "n">> :>
       {<<"r", "e", "a", "s", "o", "n">>,
        <<"w", "h", "y">>,
        <<"b", "e", "c", "a", "u", "s", "e">>,
        <<"d", "u", "e", " ", "t", "o">>,
        <<"c", "a", "u", "s", "e", "d", " ", "b", "y">>})
  @@ (<<"g", "p", "s">> :>
       {<<"g", "p", "s">>,
        <<"l", "o", "c", "a", "t", "i", "o", "n">>,
        <<"p", "i", "n">>,
        <<"c", "o", "o", "r", "d", "i", "n", "a", "t", "e", "s">>,
        <<"p", "o", "s", "i", "t", "i", "o", "n">>,
        <<"m", "a", "p">>,
        <<"t", "r", "a", "c", "k", "i", "n", "g">>,
        <<"a", "c", "c", "u", "r", "a", "c", "y">>})
  @@ (<<"b", "a", "t", "t", "e", "r", "y">> :>
       {<<"b", "a", "t", "t", "e", "r", "y">>,
        <<"c", "h", "a", "r", "g", "e">>,
        <<"c", "h", "a", "r", "g", "i", "n", "g">>,
        <<"p", "o", "w", "e", "r">>,
        <<"d", "e", "a", "d">>,
        <<"l", "o", "w">>,
        <<"d", "r", "a", "i", "n">>,
        <<"l", "i", "f", "e">>})
  @@ (<<"e", "x", "p", "e", "n", "s", "i", "v", "e">> :>
       {<<"e", "x", "p", "e", "n", "s", "i", "v", "e">>,
        <<"c", "o", "s", "t">>,
        <<"p", "r", "i", "c", "e">>,
        <<"p", "r", "i", "c", "i", "n", "g">>,
        <<"a", "f", "f", "o", "r", "d">>,
        <<"v", "a", "l", "u", "e">>,
        <<"w", "o", "r", "t", "h">>})
  @@ (<<"d", "o", "g">> :>
       {<<"d", "o", "g">>,
        <<"p", "e", "t">>,
        <<"a", "n", "i", "m", "a", "l">>,
        <<"p", "u", "p", "p", "y">>,
        <<"c", "a", "n", "i", "n", "e">>})
  @@ (<<"r", "e", "s", "p", "o", "n", "s", "e">> :>
       {<<"r", "e", "s", "p", "o", "n", "s", "e">>,
        <<"r", "e", "s", "p", "o", "n", "d">>,
        <<"f", "e", "e", "d", "b", "a", "c", "k">>,
        <<"r", "e", "a", "c", "t", "i", "o", "n">>,
        <<"r", "e", "a", "c", "t">>})
  @@ (<<"t", "r", "a", "i", "n", "i", "n", "g">> :>
       {<<"t", "r", "a", "i", "n", "i", "n", "g">>,
        <<"t", "r", "a", "i", "n">>,
        <<"l", "e", "a", "r", "n">>,
        <<"c", "u", "r", "r", "i", "c", "u", "l", "u", "m">>,
        <<"t", "e", "a", "c", "h">>})
  @@ (<<"c", "u", "s", "t", "o", "m", "e", "r", "_", "s", "e", "r", "v", "i", "c", "e">> :>
       {<<"c", "u", "s", "t", "o", "m", "e", "r", " ", "s", "e", "r", "v", "i", "c", "e">>,
        <<"s", "u", "p", "p", "o", "r", "t">>,
        <<"h", "e", "l", "p">>,
        <<"s", "e", "r", "v", "i", "c", "e">>,
        <<"c", "o", "n", "t", "a", "c", "t">>})
  @@ (<<"c", "o", "n", "t", "a", "i", "n", "m", "e", "n", "t">> :>
       {<<"c", "o", "n", "t", "a", "i", "n", "m", "e", "n", "t">>,
        <<"f", "e", "n", "c", "e">>,
        <<"b", "o", "u", "n", "d", "a", "r", "y">>,
        <<"c", "o", "r", "r", "e", "c", "t", "i", "o", "n">>,
        <<"f", "e", "e", "d", "b", "a", "c", "k">>})
  @@ (<<"f", "e", "e", "d", "b", "a", "c", "k">> :>
       {<<"f", "e", "e", "d", "b", "a", "c", "k">>,
        <<"c", "o", "r", "r", "e", "c", "t", "i", "o", "n">>,
        <<"s", "t", "a", "t", "i", "c">>,
        <<"v", "i", "b", "r", "a", "t", "i", "o", "n">>,
        <<"s", "o", "u", "n", "d">>})

\* the terms a query is expanded to: the synonyms of every concept one of
\* whose synonyms occurs in the query, the words of the query, and the
\* first four characters of its words of more than four
RelatedTerms(query, concept_mappings) ==
  LET query_lower == Lower(query)
      words       == Range(Split(query_lower))
  IN  UNION { concept_mappings[concept] :
                concept \in { k \in DOMAIN concept_mappings :
                                \E term \in concept_mappings[k] : Contains(term, query_lower) } }
        \cup words
        \cup { Take(word, 4) : word \in { x \in words : Len(x) > 4 } }

\* the relevance score of a searchable text for a query
Score(searchable, query, concept_mappings) ==
  LET query_lower == Lower(query)
      hits == { term \in RelatedTerms(query, concept_mappings) :
                  term # << >> /\ searchable # << >> /\ Contains(term, searchable) }
      exact == { term \in hits : term = query_lower }
      mapped == { term \in hits \ exact :
                    query_lower \in DOMAIN concept_mappings
                      /\ term \in concept_mappings[query_lower] }
      \* "term in mapped_term" tests membership in a list of synonyms
      cross == { term \in (hits \ exact) \ mapped :
                   \E k \in DOMAIN concept_mappings : term \in concept_mappings[k] }
      other == ((hits \ exact) \ mapped) \ cross
  IN  10 * Cardinality(exact) + 5 * Cardinality(mapped)
        + 2 * Cardinality(cross) + Cardinality(other)

\* list.sort(key = score, reverse = True): by falling score, equal scores in
\* their order in the list
RECURSIVE SortByScore(_)
SortByScore(scored) ==
  IF scored = << >> THEN << >>
  ELSE LET top == CHOOSE i \in 1..Len(scored) :
                    /\ \A j \in 1..Len(scored) : scored[j].score <= scored[i].score
                    /\ \A j \in 1..(i - 1) : scored[j].score < scored[i].score
       IN  <<scored[top]>> \o
             SortByScore(SubSeq(scored, 1, top - 1) \o SubSeq(scored, top + 1, Len(scored)))

\* the items of positive score, best first, cut to limit
SemanticSearch(items, texts, query, limit, concept_mappings) ==
  IF items = << >> THEN << >>
  ELSE LET scored == [i \in 1..Len(items) |->
                        [item |-> items[i], score |-> Score(texts[i], query, concept_mappings)]]
           sorted == SortByScore(SelectSeq(scored, LAMBDA x : x.score > 0))
       IN  PySlice([i \in 1..Len(sorted) |-> sorted[i].item], limit)

----------------------------------------------------------------------------
(* The corpora (models/conversation.py, models/survey.py)                  *)

\* the texts of the items, the search terms and the questions
GPS_LOST == <<"g", "p", "s", " ", "l", "o", "s", "t">>
GPS_UPPER == <<"G", "P", "S">>
BATTERY_DEAD == <<"b", "a", "t", "t", "e", "r", "y", " ", "d", "e", "a", "d">>
GPS_INACCURATE == <<"G", "P", "S", " ", "i", "n", "a", "c", "c", "u", "r", "a", "t", "e">>
TOO_EXPENSIVE == <<"t", "o", "o", " ", "e", "x", "p", "e", "n", "s", "i", "v", "e">>
GPS_TERM == <<"g", "p", "s">>
BATTERY_TERM == <<"b", "a", "t", "t", "e", "r", "y">>
XYZZY == <<"x", "y", "z", "z", "y", "p", "l", "u", "g", "h">>
GPS_QUESTION == <<"g", "p", "s", " ", "i", "s", "s", "u", "e", "s">>

MaxConversations == 2
MaxSurveys == 2

\* a timestamp is kept by what parsing makes of it: "naive" is an ISO
\* timestamp without a UTC offset and "valid" a survey date in the format of
\* the export, "bad" is a text that is neither (for a conversation, also a
\* timestamp with an offset, whose comparison with the naive cutoff raises),
\* "null" is a missing one; age counts the hours (conversations) or days
\* (surveys) between the timestamp and now
Stamp(kind, age) == [kind |-> kind, age |-> age]

ConversationTimestamps ==
  {Stamp("naive", 1), Stamp("naive", 1000), Stamp("bad", 0), Stamp("null", 0)}

\* the content of a conversation item, by type
ConversationContents ==
  { [type |-> "CHAT_MESSAGE", content |-> GPS_LOST],
    [type |-> "EMAIL", subject |-> GPS_UPPER, body |-> BATTERY_DEAD] }

\* ConversationItem.to_dict(), without the customer and conversation ids:
\* chat messages of every timestamp, e-mails of a recent and of an old one
ConversationItems ==
  { x \in [id : {"item-1", "item-2"}, timestamp : ConversationTimestamps,
            content : ConversationContents] :
      x.content.type = "EMAIL" => x.timestamp.kind = "naive" }

\* ConversationItem.searchable_text
conversation_searchable_text(item) ==
  LET c == item.content
      text_parts ==
        (IF "content" \in DOMAIN c THEN <<c.content>> ELSE << >>)
          \o (IF "subject" \in DOMAIN c THEN <<c.subject>> ELSE << >>)
          \o (IF "body" \in DOMAIN c THEN <<c.body>> ELSE << >>)
  IN  Lower(Join(text_parts))

\* the date column of a survey row is never empty (SurveyParserService
\* drops the rows without a response uuid or a date)
SurveyDateTimes == {Stamp("valid", 1), Stamp("valid", 400), Stamp("bad", 0)}

\* SurveyResponse.to_dict(), without the respondent's identity
SurveyResponses ==
  { [response_uuid |-> u, date_time |-> d, answers |-> <<a>>] :
      u \in {"uuid-1", "uuid-2"}, d \in SurveyDateTimes, a \in {GPS_INACCURATE, TOO_EXPENSIVE} }
    \ { x \in [response_uuid : {"uuid-1", "uuid-2"}, date_time : SurveyDateTimes,
                answers : {<<TOO_EXPENSIVE>>}] : x.date_time.kind = "bad" }

\* SurveyResponse.searchable_text
survey_searchable_text(survey) ==
  Lower(Join(SelectSeq(survey.answers, LAMBDA a : a # << >>)))

\* the sequences over S of at most n elements
SeqsUpTo(S, n) == UNION { [1..k -> S] : k \in 0..n }

\* ConversationService.semantic_search_conversations
semantic_search_conversations(convs, query, limit) ==
  SemanticSearch(convs, [i \in 1..Len(convs) |-> conversation_searchable_text(convs[i])],
                 query, limit, conversation_concept_mappings)

\* SurveyService.semantic_search_surveys
semantic_search_surveys(svs, query, limit) ==
  SemanticSearch(svs, [i \in 1..Len(svs) |-> survey_searchable_text(svs[i])],
                 query, limit, survey_concept_mappings)

\* ConversationService.get_recent_conversations: the items whose timestamp
\* parses and is not before the cutoff
get_recent_conversations(convs, hours) ==
  SelectSeq(convs, LAMBDA item :
    /\ item.timestamp.kind = "naive"
    /\ item.timestamp.age <= hours)

----------------------------------------------------------------------------
(* Query planning (rag_service.py, survicate_rag_service.py, helpers.py)   *)

\* the text of an LLM answer, as its parts: prose, an opening or a closing
\* brace, or a "key": value pair of a JSON object
Prose == [t |-> "prose"]
Open == [t |-> "{"]
Close == [t |-> "}"]
Pair(k, v) == [t |-> "pair", key |-> k, value |-> v]

\* the text of the JSON object d, its pairs in the order keys
RECURSIVE JsonText(_, _)
JsonText(d, keys) ==
  IF keys = << >> THEN << >>
  ELSE (IF Head(keys) \in DOMAIN d THEN <<Pair(Head(keys), d[Head(keys)])>> ELSE << >>)
         \o JsonText(d, Tail(keys))

\* json.loads of an object's text: the pairs between the braces, a later
\* pair replacing an earlier one of the same key; None when the text between
\* the braces is not a list of pairs
RECURSIVE JsonPairs(_)
JsonPairs(parts) ==
  IF parts = << >> THEN EmptyDict
  ELSE Update(JsonPairs(SubSeq(parts, 1, Len(parts) - 1)),
              [k \in {parts[Len(parts)].key} |-> parts[Len(parts)].value])

\* extract_json_from_text: the text from the first opening brace to the last
\* closing brace, parsed; None when there is no such text or it is not JSON
extract_json_from_text(text) ==
  LET opens  == { i \in 1..Len(text) : text[i] = Open }
      first  == CHOOSE i \in opens : \A j \in opens : i <= j
      closes == { i \in 1..Len(text) : text[i] = Close /\ i > first }
      last   == CHOOSE i \in closes : \A j \in closes : j <= i
      inner  == SubSeq(text, first + 1, last - 1)
  IN  IF opens = {} THEN None
      ELSE IF closes = {} THEN None
      ELSE IF \E i \in 1..Len(inner) : inner[i].t # "pair" THEN None
      ELSE Some(JsonPairs(inner))

RagPlanKeys == <<"search_terms", "content_types", "time_filters", "analysis_focus", "max_items">>

SurveyPlanKeys ==
  <<"search_terms", "questions_of_interest", "time_filters", "analysis_focus", "max_items",
    "trend_analysis">>

GeneralAnalysis == <<"general analysis">>

\* the plans the fallback of _plan_query builds for a question
RagFallbackPlan(question) ==
  [search_terms   |-> <<question>>,
   content_types  |-> <<"CHAT_MESSAGE", "EMAIL", "CONVERSATION_NOTE">>,
   time_filters   |-> "all",
   analysis_focus |-> GeneralAnalysis,
   max_items      |-> 100]

SurveyFallbackPlan(question) ==
  [search_terms          |-> <<question>>,
   questions_of_interest |-> << >>,
   time_filters          |-> "all",
   analysis_focus        |-> GeneralAnalysis,
   max_items             |-> 100,
   trend_analysis        |-> FALSE]

\* a try block that never misses a key
PlanAttemptAnyKeys(outcome, required) ==
  IF outcome.kind # "text" THEN [raised |-> TRUE, plan |-> None]
  ELSE LET plan == extract_json_from_text(outcome.content)
       IN  IF plan = None \/ DOMAIN plan[1] = {}
           THEN [raised |-> TRUE, plan |-> None]
           ELSE [raised |-> FALSE, plan |-> plan]

\* what the try block of _plan_query makes of the outcome of the LLM call:
\* the parsed plan, or the exception that sends it to the except clause
PlanAttempt(outcome, required) ==
  IF outcome.kind # "text" THEN [raised |-> TRUE, plan |-> None]
  ELSE LET plan == extract_json_from_text(outcome.content)
       IN  IF plan = None \/ DOMAIN plan[1] = {}
           THEN [raised |-> TRUE, plan |-> None]       \* ValueError
           ELSE IF \E k \in required : k \notin DOMAIN plan[1]
           THEN [raised |-> TRUE, plan |-> None]       \* KeyError
           ELSE [raised |-> FALSE, plan |-> plan]

\* RAGService._plan_query: the plan it returns and whether it is the fallback
rag_plan_query(question, outcome) ==
  LET a == PlanAttempt(outcome, Range(RagPlanKeys))
  IN  IF a.raised THEN [plan |-> RagFallbackPlan(question), fallback |-> TRUE, raised |-> FALSE]
      ELSE [plan |-> a.plan[1], fallback |-> FALSE, raised |-> FALSE]

\* SurvicateRAGService._plan_query, which reads the plan with plan.get
survey_plan_query(question, outcome) ==
  LET a == PlanAttempt(outcome, {})
  IN  IF a.raised THEN [plan |-> SurveyFallbackPlan(question), fallback |-> TRUE, raised |-> FALSE]
      ELSE [plan |-> a.plan[1], fallback |-> FALSE, raised |-> FALSE]

\* plan.get(k, default)
PlanGet(plan, k, default) == IF k \in DOMAIN plan THEN plan[k] ELSE default

----------------------------------------------------------------------------
(* Retrieval (rag_service.py, survicate_rag_service.py)                    *)

MIN_RESULTS_THRESHOLD == 20

\* the warnings step 2 of a query gets when the service holds no corpus
NoConversationData == <<"Warning: No conversation data is currently loaded.">>

NoSurveyData == <<"Warning: No survey data is currently loaded.">>

\* the results of the per-term searches, one after the other; the limit
\* of a search is max_items // len(search_terms)
RECURSIVE RagSearchTerms(_, _, _)
RagSearchTerms(convs, terms, plan) ==
  IF terms = << >> THEN << >>
  ELSE semantic_search_conversations(convs, Head(terms),
                                     plan.max_items \div Len(plan.search_terms))
         \o RagSearchTerms(convs, Tail(terms), plan)

\* a closing loop that cuts the list to max_items and keeps what it finds
RagKeepDuplicates(relevant_data, seen_ids, unique_data, max_items) ==
  PySlice(relevant_data, Max(max_items, 1))

\* the closing loop of RAGService._retrieve_data: the first item of each id,
\* until max_items of them are kept
RECURSIVE RagRemoveDuplicates(_, _, _, _)
RagRemoveDuplicates(relevant_data, seen_ids, unique_data, max_items) ==
  IF relevant_data = << >> THEN unique_data
  ELSE LET item == Head(relevant_data)
       IN  IF item.id \notin seen_ids
           THEN IF Len(unique_data) + 1 >= max_items
                THEN Append(unique_data, item)
                ELSE RagRemoveDuplicates(Tail(relevant_data), seen_ids \cup {item.id},
                                         Append(unique_data, item), max_items)
           ELSE RagRemoveDuplicates(Tail(relevant_data), seen_ids, unique_data, max_items)

\* the content-type filter of RAGService._retrieve_data
RagContentTypeFilter(relevant_data, plan) ==
  IF plan.content_types # <<"all">>
  THEN SelectSeq(relevant_data, LAMBDA item :
         \E i \in 1..Len(plan.content_types) : plan.content_types[i] = item.content.type)
  ELSE relevant_data

\* the time filter of RAGService._retrieve_data: the items whose id is the
\* id of a recent conversation item, if there is a recent one at all
RagTimeFilter(convs, relevant_data, plan) ==
  LET hours == IF plan.time_filters = "last_24_hours" THEN 24 ELSE 24 * 7
  IN  Bind(get_recent_conversations(convs, hours), LAMBDA recent :
        LET recent_ids == { recent[i].id : i \in 1..Len(recent) }
        IN  IF plan.time_filters \in {"last_24_hours", "last_7_days"} /\ recent_ids # {}
            THEN SelectSeq(relevant_data, LAMBDA item : item.id \in recent_ids)
            ELSE relevant_data)

\* RAGService._retrieve_data: the list it returns and the retrieval stats
\* (by_search_term is the sum of the counts the stats keep per term)
rag_retrieve_data(convs, plan) ==
  IF Len(convs) = 0
  THEN [data |-> << >>,
        warning |-> Some(NoConversationData),
        stats |-> [by_search_term |-> 0, total_searched |-> 0, filtered_out |-> 0,
                   final_count |-> None,
                   duplicates_removed |-> None, fallback_used |-> FALSE,
                   fallback_reason |-> None]]
  ELSE
    Bind(RagSearchTerms(convs, plan.search_terms, plan), LAMBDA searched :
    Bind(RagContentTypeFilter(searched, plan), LAMBDA typed :
    Bind(RagTimeFilter(convs, typed, plan), LAMBDA timed :
    Bind(RagRemoveDuplicates(timed, {}, << >>, plan.max_items), LAMBDA unique_data :
      [data |-> unique_data,
       warning |-> None,
       stats |-> [by_search_term |-> Len(searched),
                  total_searched |-> Len(searched),
                  filtered_out |-> Len(searched) - Len(typed),
                  final_count |-> Some(Len(unique_data)),
                  duplicates_removed |-> Some(Len(timed) - Len(unique_data)),
                  fallback_used |-> FALSE,
                  fallback_reason |-> None]]))))

\* the results of the per-term searches of the survey service
RECURSIVE SurveySearchTerms(_, _, _)
SurveySearchTerms(svs, terms, term_limit) ==
  IF terms = << >> THEN << >>
  ELSE semantic_search_surveys(svs, Head(terms), term_limit)
         \o SurveySearchTerms(svs, Tail(terms), term_limit)

\* a fallback that takes the surveys from the end of the corpus
SurveyFallbackNewestFirst(svs, seen_uuids, relevant_data, fallback_limit) ==
  [i \in 1..Max(0, Min(fallback_limit, Len(svs))) |-> svs[Len(svs) + 1 - i]]

\* the fallback loop: the surveys in corpus order, the first of each uuid,
\* until fallback_limit of them are taken
RECURSIVE SurveyFallback(_, _, _, _)
SurveyFallback(svs, seen_uuids, relevant_data, fallback_limit) ==
  IF svs = << >> THEN relevant_data
  ELSE IF Len(relevant_data) >= fallback_limit THEN relevant_data
  ELSE IF Head(svs).response_uuid \in seen_uuids
       THEN SurveyFallback(Tail(svs), seen_uuids, relevant_data, fallback_limit)
       ELSE SurveyFallback(Tail(svs), seen_uuids \cup {Head(svs).response_uuid},
                           Append(relevant_data, Head(svs)), fallback_limit)

\* the days a time filter of the survey service reaches back; None for a
\* filter it does not know
SurveyCutoff(time_filters) ==
  CASE time_filters = "last_30_days" -> Some(30)
    [] time_filters = "last_7_days"  -> Some(7)
    [] time_filters = "last_90_days" -> Some(90)
    [] OTHER -> None

\* the time filter of the survey service: an item without a date, or with a
\* date that does not parse, is kept
SurveyTimeFilter(relevant_data, time_filters) ==
  LET cutoff == SurveyCutoff(time_filters)
  IN  IF time_filters = "all" \/ cutoff = None THEN relevant_data
      ELSE SelectSeq(relevant_data, LAMBDA item :
             \/ item.date_time.kind \in {"null", "bad"}
             \/ item.date_time.age <= cutoff[1])

\* the closing loop of SurvicateRAGService._retrieve_data
RECURSIVE SurveyRemoveDuplicates(_, _, _, _)
SurveyRemoveDuplicates(relevant_data, seen_uuids, unique_data, max_items) ==
  IF relevant_data = << >> THEN unique_data
  ELSE LET response_uuid == Head(relevant_data).response_uuid
       IN  IF response_uuid # "" /\ response_uuid \notin seen_uuids
           THEN IF Len(unique_data) + 1 >= max_items
                THEN Append(unique_data, Head(relevant_data))
                ELSE SurveyRemoveDuplicates(Tail(relevant_data), seen_uuids \cup {response_uuid},
                                            Append(unique_data, Head(relevant_data)), max_items)
           ELSE SurveyRemoveDuplicates(Tail(relevant_data), seen_uuids, unique_data, max_items)

\* SurvicateRAGService._retrieve_data: the list it returns and the stats
survey_retrieve_data(svs, plan) ==
  LET total_available == Len(svs)
      search_terms == PlanGet(plan, "search_terms", << >>)
      max_items    == PlanGet(plan, "max_items", 100)
      term_limit   == Max(1, max_items \div Max(Len(search_terms), 1))
  IN  IF total_available = 0
      THEN [data |-> << >>,
            warning |-> Some(NoSurveyData),
            stats |-> [by_search_term |-> 0, total_searched |-> 0, filtered_out |-> 0,
                       final_count |-> None,
                       duplicates_removed |-> None, fallback_used |-> FALSE,
                       fallback_reason |-> None]]
      ELSE
        Bind(SurveySearchTerms(svs, search_terms, term_limit), LAMBDA searched :
        LET fallback == Len(searched) < MIN_RESULTS_THRESHOLD /\ total_available > 0
        IN
        Bind(IF fallback
             THEN SurveyFallback(svs, {}, << >>, Min(max_items, total_available))
             ELSE searched, LAMBDA relevant_data :
        Bind(SurveyTimeFilter(relevant_data, PlanGet(plan, "time_filters", "all")), LAMBDA timed :
        Bind(SurveyRemoveDuplicates(timed, {}, << >>, max_items), LAMBDA unique_data :
          [data |-> unique_data,
           warning |-> None,
           stats |-> [by_search_term |-> Len(searched),
                      total_searched |-> IF fallback THEN Len(relevant_data) ELSE Len(searched),
                      filtered_out |-> Len(relevant_data) - Len(timed),
                      final_count |-> Some(Len(unique_data)),
                      duplicates_removed |-> Some(Len(timed) - Len(unique_data)),
                      fallback_used |-> fallback,
                      fallback_reason |->
                        IF fallback
                        THEN Some(<<"Semantic search returned only", ToString(Len(searched)),
                                    "results, below minimum threshold">>)
                        ELSE None]]))))

----------------------------------------------------------------------------
(* A query: planning, then retrieval (process_query)                       *)

ManyTerms == 10

Questions == {GPS_QUESTION, XYZZY}

\* what the LLM puts in a plan: the lists of search terms, the content
\* types, the time filters and the item limits
RagTermLists == << << >>, <<GPS_TERM>>, <<GPS_TERM, BATTERY_TERM>>, <<XYZZY>> >>

SurveyTermLists == << << >>, <<GPS_TERM>>, <<XYZZY>>, [i \in 1..ManyTerms |-> GPS_TERM] >>

RagContentTypes == << <<"all">>, <<"EMAIL">> >>

RagTimeFilters == <<"all", "last_24_hours", "last_7_days", "last_30_days">>

SurveyTimeFilters == <<"all", "last_7_days", "yesterday", "last_24_hours">>

RagMaxItems == <<100, 1>>

SurveyMaxItems == <<100, 0, 1>>

\* a choice of one of each, by position
RagChoices ==
  [terms : DOMAIN RagTermLists, types : DOMAIN RagContentTypes,
   filter : DOMAIN RagTimeFilters, max_items : DOMAIN RagMaxItems]

SurveyChoices ==
  [terms : DOMAIN SurveyTermLists, types : {1},
   filter : DOMAIN SurveyTimeFilters, max_items : DOMAIN SurveyMaxItems]

\* the plan of a choice
RagJsonPlan(c) ==
  [search_terms   |-> RagTermLists[c.terms],
   content_types  |-> RagContentTypes[c.types],
   time_filters   |-> RagTimeFilters[c.filter],
   analysis_focus |-> GeneralAnalysis,
   max_items      |-> RagMaxItems[c.max_items]]

SurveyJsonPlan(c) ==
  [search_terms          |-> SurveyTermLists[c.terms],
   questions_of_interest |-> << >>,
   time_filters          |-> SurveyTimeFilters[c.filter],
   analysis_focus        |-> GeneralAnalysis,
   max_items             |-> SurveyMaxItems[c.max_items],
   trend_analysis        |-> FALSE]

\* the plan d without the key k
Without(d, k) == [x \in DOMAIN d \ {k} |-> d[x]]

\* the questions asked and the ways their planning call ends: an exception
\* of the client, a timeout, or an answer that is a JSON plan, a plan between
\* prose, a plan lacking one key, an empty object, two objects, an object
\* cut before its closing brace, or prose
PlanningCalls(choices, nkeys) ==
  LET one == [terms |-> 2, types |-> 1, filter |-> 1, max_items |-> 1]
  IN  { [question |-> GPS_QUESTION, form |-> "json", choice |-> c, key |-> 0] : c \in choices }
        \cup { [question |-> q, form |-> f, choice |-> one, key |-> 0] :
                 q \in Questions,
                 f \in {"error", "timeout", "prose_json_prose", "empty_object", "two_objects",
                        "cut", "prose"} }
        \cup { [question |-> q, form |-> "lacking", choice |-> one, key |-> k] :
                 q \in Questions, k \in 1..nkeys }

\* the outcome of a planning call that ends as call does, for the plan d
\* with the keys keys
PlanOutcome(call, d, keys) ==
  LET json(x) == <<Open>> \o JsonText(x, keys) \o <<Close>>
      text(content) == [kind |-> "text", content |-> content]
  IN  CASE call.form = "error"   -> [kind |-> "error"]
        [] call.form = "timeout" -> [kind |-> "timeout"]
        [] call.form = "json"    -> text(json(d))
        [] call.form = "lacking" -> text(json(Without(d, keys[call.key])))
        [] call.form = "prose_json_prose" -> text(<<Prose>> \o json(d) \o <<Prose>>)
        [] call.form = "empty_object" -> text(<<Open, Close>>)
        [] call.form = "two_objects"  -> text(json(d) \o <<Prose>> \o json(d))
        [] call.form = "cut"     -> text(<<Open>> \o JsonText(d, keys))
        [] call.form = "prose"   -> text(<<Prose>>)

RagPlanOutcome(call) == PlanOutcome(call, RagJsonPlan(call.choice), RagPlanKeys)

SurveyPlanOutcome(call) == PlanOutcome(call, SurveyJsonPlan(call.choice), SurveyPlanKeys)

\* the services hold the corpus they loaded; no query is in progress
QueryInit ==
  /\ \/ conversations \in SeqsUpTo(ConversationItems, MaxConversations) /\ surveys = << >>
     \/ conversations = << >> /\ surveys \in SeqsUpTo(SurveyResponses, MaxSurveys)
  /\ rag_process = None
  /\ corpus = [c \in Convs |-> 1]
  /\ topic_extraction_state = InitialState
  /\ file = EmptyDict
  /\ requests = [r \in Requests |-> [pc |-> "new"]]
  /\ workers = [r \in Requests |-> NoWorker]
  /\ validated = None
  /\ NoLoad
  /\ extraction = NoExtraction

\* step 1 of a query
Planned(service, call, res) ==
  Some([service |-> service, step |-> "planned", question |-> call.question, call |-> call,
        plan |-> res.plan, fallback |-> res.fallback, raised |-> res.raised,
        data |-> << >>, stats |-> None, warning |-> None, response |-> None])

\* RAGService.process_query up to the end of _plan_query
RagPlanQuery ==
  /\ rag_process = None
  /\ \E call \in PlanningCalls(RagChoices, Len(RagPlanKeys)) :
       rag_process' =
         Planned("rag", call, rag_plan_query(call.question, RagPlanOutcome(call)))
  /\ UNCHANGED <<conversations, surveys, nonQueryVars>>

\* SurvicateRAGService.process_query up to the end of _plan_query
SurveyPlanQuery ==
  /\ rag_process = None
  /\ \E call \in PlanningCalls(SurveyChoices, Len(SurveyPlanKeys)) :
       rag_process' =
         Planned("survey", call, survey_plan_query(call.question, SurveyPlanOutcome(call)))
  /\ UNCHANGED <<conversations, surveys, nonQueryVars>>

\* step 2 of a query of RAGService
RagRetrieveData ==
  /\ rag_process # None
  /\ rag_process[1].service = "rag" /\ rag_process[1].step = "planned"
  /\ \E res \in {rag_retrieve_data(conversations, rag_process[1].plan)} :
         rag_process' = Some([rag_process[1] EXCEPT
                                !.step = "retrieved", !.data = res.data, !.stats = Some(res.stats),
                                !.warning = res.warning])
  /\ UNCHANGED <<conversations, surveys, nonQueryVars>>

\* step 2 of a query of SurvicateRAGService
SurveyRetrieveData ==
  /\ rag_process # None
  /\ rag_process[1].service = "survey" /\ rag_process[1].step = "planned"
  /\ \E res \in {survey_retrieve_data(surveys, rag_process[1].plan)} :
         rag_process' = Some([rag_process[1] EXCEPT
                                !.step = "retrieved", !.data = res.data, !.stats = Some(res.stats),
                                !.warning = res.warning])
  /\ UNCHANGED <<conversations, surveys, nonQueryVars>>

\* str(e) of the other exceptions of the synthesis call
Msg401 == <<"401 Client Error: Unauthorized for url">>

MsgBadBody == <<"Expecting value: line 1 column 1 (char 0)">>

\* the ways the call of ClaudeService.send_message in _analyze_data ends: a
\* response, the TimeoutError made of requests' Timeout, the HTTPError of
\* raise_for_status re-raised as it is (401 for a key the API rejects, 500),
\* or the JSONDecodeError of response.json(), which is a ValueError
SynthesisOutcomes ==
  { [kind |-> "text", status |-> 200, msg |-> << >>],
    TimeoutErr, HttpError(401, Msg401), HttpError(500, Msg500),
    [kind |-> "bad_body", status |-> 200, msg |-> MsgBadBody] }

\* the body and status of the answer to POST /ask: the result of
\* process_query, or what the except clauses of the route make of the
\* exception of the synthesis call
ask_response(outcome, data, warning) ==
  CASE outcome.kind = "text" ->
         [status |-> 200, success |-> TRUE, error |-> << >>, type |-> "",
          data_retrieved |-> Len(data), warning |-> warning]
    [] outcome.kind = "timeout" ->
         [status |-> 504, success |-> FALSE, error |-> <<"Request timeout">>,
          type |-> "TimeoutError", data_retrieved |-> 0, warning |-> None]
    [] outcome.kind = "bad_body" ->
         [status |-> 500, success |-> FALSE,
          error |-> <<"Configuration error: ">> \o outcome.msg,
          type |-> "", data_retrieved |-> 0, warning |-> None]
    [] OTHER ->
         [status |-> 500, success |-> FALSE, error |-> outcome.msg,
          type |-> "HTTPError", data_retrieved |-> 0, warning |-> None]

\* step 3 of a query and the answer of the route, for either service
AnalyzeData(service) ==
  /\ rag_process # None
  /\ rag_process[1].service = service /\ rag_process[1].step = "retrieved"
  /\ \E outcome \in SynthesisOutcomes :
       rag_process' =
         Some([rag_process[1] EXCEPT
                 !.step = "answered",
                 !.response = Some([outcome |-> outcome,
                                    body |-> ask_response(outcome, rag_process[1].data,
                                                          rag_process[1].warning)])])
  /\ UNCHANGED <<conversations, surveys, nonQueryVars>>

RagAnalyzeData == AnalyzeData("rag")

SurveyAnalyzeData == AnalyzeData("survey")

QueryNext ==
  \/ RagPlanQuery
  \/ SurveyPlanQuery
  \/ RagRetrieveData
  \/ SurveyRetrieveData
  \/ RagAnalyzeData
  \/ SurveyAnalyzeData

QuerySpec == QueryInit /\ [][QueryNext]_vars

----------------------------------------------------------------------------
(* Loading and refreshing the corpus (storage_service.py,                  *)
(* conversation_service.py), and a query reading it meanwhile              *)

\* the JSON objects of the file: two items, and one without id and timestamp
RawItems ==
  << [id |-> "item-1", timestamp |-> Stamp("naive", 1),
      content |-> [type |-> "CHAT_MESSAGE", content |-> GPS_LOST]],
     [id |-> "item-2", timestamp |-> Stamp("naive", 1000),
      content |-> [type |-> "EMAIL", subject |-> GPS_UPPER, body |-> BATTERY_DEAD]],
     [content |-> [type |-> "CHAT_MESSAGE", content |-> BATTERY_DEAD]] >>

\* a line of the file, by what json.loads makes of it: "object" is the
\* JSON object RawItems[raw], "number" a JSON value that is no object,
\* "garbage" no JSON at all, "blank" white space; "open", "object_comma"
\* and "close" are the lines of a JSON array written over several lines
Line(kind, raw) == [kind |-> kind, raw |-> raw]

\* json.loads(line.strip()): whether it returns, and the value
json_loads_line(line) ==
  [ok |-> line.kind \in {"object", "number"}, value |-> line]

\* json.loads(content) of the whole file: a value if the lines together are
\* one JSON text, which is a single value or an array over several lines
json_loads_content(lines) ==
  LET text == SelectSeq(lines, LAMBDA l : l.kind # "blank")
      n == Len(text)
      is_array ==
        /\ n >= 2 /\ text[1].kind = "open" /\ text[n].kind = "close"
        /\ \A i \in 2..(n - 1) :
             text[i].kind = IF i = n - 1 THEN "object" ELSE "object_comma"
  IN  IF n = 1 /\ text[1].kind \in {"object", "number"}
      THEN [ok |-> TRUE, is_list |-> FALSE, data |-> text]
      ELSE IF is_array
      THEN [ok |-> TRUE, is_list |-> TRUE,
            data |-> [i \in 1..(n - 2) |-> Line("object", text[i + 1].raw)]]
      ELSE [ok |-> FALSE, is_list |-> FALSE, data |-> << >>]

\* the loop of StorageService._parse_content from line i on
RECURSIVE ParseLines(_, _, _)
ParseLines(lines, i, parsed) ==
  IF i > Len(lines) THEN parsed
  ELSE IF lines[i].kind = "blank" THEN ParseLines(lines, i + 1, parsed)
  ELSE IF json_loads_line(lines[i]).ok
  THEN ParseLines(lines, i + 1, Append(parsed, json_loads_line(lines[i]).value))
  ELSE LET whole == json_loads_content(lines)
       IN  IF whole.ok THEN whole.data    \* a list, or the one value in a list
           ELSE << >>                     \* return []

\* StorageService._parse_content
_parse_content(lines) == ParseLines(lines, 1, << >>)

\* StorageService.load_conversations: [] if the file cannot be read
storage_load_conversations(st) ==
  IF st = None THEN << >> ELSE _parse_content(st[1])

\* ConversationItem.from_dict, which reads the keys with data.get
from_dict(data) ==
  [id        |-> IF "id" \in DOMAIN data THEN data.id ELSE "",
   timestamp |-> IF "timestamp" \in DOMAIN data THEN data.timestamp ELSE Stamp("null", 0),
   content   |-> data.content]

\* what load_conversations leaves in self.conversations for the parsed
\* values raw: the items, or [] if from_dict raises on a value without get
BuildAll(raw) ==
  IF \E i \in 1..Len(raw) : raw[i].kind # "object" THEN << >>
  ELSE [i \in 1..Len(raw) |-> from_dict(RawItems[raw[i].raw])]

\* ConversationService.load_conversations as a whole
load_conversations(st) == BuildAll(storage_load_conversations(st))

MaxRefreshes == 2

\* the contents of the file
StorageContents ==
  { << >>,
    <<Line("object", 1)>>,
    <<Line("object", 1), Line("object", 2)>>,
    <<Line("object", 1), Line("garbage", 0), Line("object", 2)>>,
    <<Line("object", 3), Line("blank", 0)>>,
    <<Line("object", 2), Line("number", 0)>>,
    <<Line("open", 0), Line("object_comma", 2), Line("object", 1), Line("close", 0)>> }

\* the plans of the query that reads the corpus
ReaderPlans ==
  { RagJsonPlan([terms |-> t, types |-> 1, filter |-> f, max_items |-> 1]) :
      t \in {2, 3}, f \in {1, 2} }

\* a service that has loaded the file; no refresh and no query yet
LoadInit ==
  /\ storage \in {None} \cup { Some(c) : c \in StorageContents }
  /\ conversations = load_conversations(storage)
  /\ refresh = NoRefresh
  /\ reader = NoReader
  /\ surveys = << >>
  /\ rag_process = None
  /\ corpus = [c \in Convs |-> 1]
  /\ topic_extraction_state = InitialState
  /\ file = EmptyDict
  /\ requests = [r \in Requests |-> [pc |-> "new"]]
  /\ workers = [r \in Requests |-> NoWorker]
  /\ validated = None
  /\ extraction = NoExtraction

nonLoadVars == <<batchVars, surveys, rag_process, validated, extraction>>

\* the file is replaced or removed by the downloader (followed here while
\* no refresh is reading it, and until the last refresh has started)
StorageChange ==
  /\ refresh.pc = "idle" /\ refresh.count < MaxRefreshes
  /\ storage' \in ({None} \cup { Some(c) : c \in StorageContents }) \ {storage}
  /\ UNCHANGED <<conversations, refresh, reader, nonLoadVars>>

\* POST /refresh, refresh_conversations: the file is read and parsed
RefreshStart ==
  /\ refresh.pc = "idle" /\ refresh.count < MaxRefreshes
  /\ refresh' = [pc |-> "building", count |-> refresh.count + 1,
                 content |-> IF storage = None THEN << >> ELSE storage[1],
                 raw |-> storage_load_conversations(storage),
                 old |-> conversations, built |-> << >>, readable |-> storage # None]
  /\ UNCHANGED <<storage, conversations, reader, nonLoadVars>>

\* self.conversations while the list comprehension of load_conversations
\* is being evaluated: the comprehension fills a list of its own
WhileBuildingInPlace(old, built) == built

WhileBuilding(old, built) == old

\* one element of the list comprehension; from_dict raises on a value that
\* is no dict, and the except clause sets self.conversations = []
RefreshBuildItem ==
  /\ refresh.pc = "building"
  /\ Len(refresh.built) < Len(refresh.raw)
  /\ LET conv == refresh.raw[Len(refresh.built) + 1]
     IN  IF conv.kind = "object"
         THEN \E built \in {Append(refresh.built, from_dict(RawItems[conv.raw]))} :
                /\ refresh' = [refresh EXCEPT !.built = built]
                /\ conversations' = WhileBuilding(conversations, built)
         ELSE /\ refresh' = [NoRefresh EXCEPT !.count = refresh.count]
              /\ conversations' = << >>
  /\ UNCHANGED <<storage, reader, nonLoadVars>>

\* the assignment of the finished list to self.conversations
RefreshPublish ==
  /\ refresh.pc = "building"
  /\ Len(refresh.built) = Len(refresh.raw)
  /\ conversations' = refresh.built
  /\ refresh' = [NoRefresh EXCEPT !.count = refresh.count]
  /\ UNCHANGED <<storage, reader, nonLoadVars>>

\* a read of self.conversations by the query: what it saw, and whether a
\* refresh had built a part of its list at that moment
Read(r) ==
  [r EXCEPT !.reads = Append(@, conversations),
            !.mid_refresh = @ \/ (refresh.pc = "building" /\ refresh.built # << >>)]

\* POST /ask: process_query up to the end of _plan_query
ReaderStart ==
  /\ reader.pc = "idle"
  /\ \E plan \in ReaderPlans : reader' = [NoReader EXCEPT !.pc = "available", !.plan = plan]
  /\ UNCHANGED <<storage, conversations, refresh, nonLoadVars>>

\* _retrieve_data: the test of is_available
ReaderIsAvailable ==
  /\ reader.pc = "available"
  /\ reader' = [Read(reader) EXCEPT
                  !.pc = IF Len(conversations) = 0 THEN "summary" ELSE "search",
                  !.term = 1]
  /\ UNCHANGED <<storage, conversations, refresh, nonLoadVars>>

\* _retrieve_data: the search of one term
ReaderSearchTerm ==
  /\ reader.pc = "search"
  /\ LET plan == reader.plan
     IN  \E results \in {semantic_search_conversations(
                           conversations, plan.search_terms[reader.term],
                           plan.max_items \div Len(plan.search_terms))} :
           reader' = [Read(reader) EXCEPT
                        !.relevant_data = @ \o results,
                        !.term = @ + 1,
                        !.pc = IF reader.term = Len(plan.search_terms)
                               THEN "filter" ELSE "search"]
  /\ UNCHANGED <<storage, conversations, refresh, nonLoadVars>>

\* _retrieve_data: the filters, of which the time filter reads the corpus,
\* and the removal of duplicates
ReaderFilter ==
  /\ reader.pc = "filter"
  /\ LET plan == reader.plan
         r == IF plan.time_filters = "all" THEN reader ELSE Read(reader)
     IN  \E typed \in {RagContentTypeFilter(reader.relevant_data, plan)} :
         \E timed \in {RagTimeFilter(conversations, typed, plan)} :
           reader' = [r EXCEPT !.pc = "summary",
                               !.data = RagRemoveDuplicates(timed, {}, << >>, plan.max_items)]
  /\ UNCHANGED <<storage, conversations, refresh, nonLoadVars>>

\* _analyze_data: get_summary, before the synthesis call
ReaderSummary ==
  /\ reader.pc = "summary"
  /\ reader' = [Read(reader) EXCEPT !.pc = "synthesis"]
  /\ UNCHANGED <<storage, conversations, refresh, nonLoadVars>>

\* _analyze_data: len(self.conversation_service.conversations) for the
\* data summary, after the synthesis call
ReaderDataSummary ==
  /\ reader.pc = "synthesis"
  /\ reader' = [Read(reader) EXCEPT !.pc = "done"]
  /\ UNCHANGED <<storage, conversations, refresh, nonLoadVars>>

LoadNext ==
  \/ StorageChange
  \/ RefreshStart
  \/ RefreshBuildItem
  \/ RefreshPublish
  \/ ReaderStart
  \/ ReaderIsAvailable
  \/ ReaderSearchTerm
  \/ ReaderFilter
  \/ ReaderSummary
  \/ ReaderDataSummary

LoadSpec == LoadInit /\ [][LoadNext]_vars

----------------------------------------------------------------------------
(* Validation of the topic of an LLM answer                                *)

\* str.upper()
Upper(s) ==
  [i \in DOMAIN s |->
     IF \E u \in DOMAIN UpperToLower : UpperToLower[u] = s[i]
     THEN CHOOSE u \in DOMAIN UpperToLower : UpperToLower[u] = s[i]
     ELSE s[i]]

PrefixLen == 5

\* the labels an answer can carry under "topic": every taxonomy entry as it
\* is, in lower and in upper case, its first word, its first characters, the
\* entry after a heading, before a full stop and after a blank; a word that
\* is no topic, the empty string, null, numbers and lists
TopicLabels ==
  UNION { { PyStr(e), PyStr(Lower(e)), PyStr(Upper(e)), PyStr(Split(e)[1]),
            PyStr(Take(e, PrefixLen)), PyStr(<<"T", "o", "p", "i", "c", ":", " ">> \o e),
            PyStr(e \o <<".">>), PyStr(<<" ">> \o e) } : e \in TopicSet }
    \cup { PyStr(Banana), PyStr(<< >>), PyNull, PyInt(0), PyInt(7), PyList, PyListOf("GPS") }

TopicInit ==
  /\ validated = None
  /\ conversations = << >>
  /\ surveys = << >>
  /\ rag_process = None
  /\ corpus = [c \in Convs |-> 1]
  /\ topic_extraction_state = InitialState
  /\ file = EmptyDict
  /\ requests = [r \in Requests |-> [pc |-> "new"]]
  /\ workers = [r \in Requests |-> NoWorker]
  /\ NoLoad
  /\ extraction = NoExtraction

\* a call of _validate_topic
ValidateTopic ==
  /\ \E label \in TopicLabels :
       validated' = Some([label |-> label, topic |-> _validate_topic(label)])
  /\ UNCHANGED nonTopicVars

TopicNext == ValidateTopic

TopicSpec == TopicInit /\ [][TopicNext]_vars

----------------------------------------------------------------------------
(* Properties of the batch engine                                          *)

\* the threads that have been started and have not ended
LiveWorkers == { r \in Requests : workers[r].pc \notin {"none", "done"} }

\* C1: at most one topic-extraction batch is running at any time, for every
\* interleaving of two start requests handled concurrently
C1_AtMostOneBatch == Cardinality(LiveWorkers) <= 1

\* the conversations the thread w has extracted a record for in this run
ExtractedInRun(w) ==
  { c \in DOMAIN w.all_extracted_mapping :
      ~(corpus[c] \in DOMAIN w.loaded /\ c \in DOMAIN w.loaded[corpus[c]]) }

\* conversation c has a record in the blob b
StoredIn(b, c) == corpus[c] \in DOMAIN b /\ c \in DOMAIN b[corpus[c]]

\* C2: when a run is aborted by rate-limit exhaustion on conversation k, the
\* record of every conversation extracted before k in that run is persisted
\* in topic storage and retrievable after the abort
C2_PartialResultsPersisted ==
  \A r \in Requests :
    workers[r].rate_limited_on # None =>
      \A c \in ExtractedInRun(workers[r]) : StoredIn(file, c)

C9_RateLimitStopsBatch ==
  /\ [](\A r \in Requests :
          workers[r].rate_limited_on # None =>
            LET w == workers[r]
                k == w.rate_limited_on[1]
            IN  /\ w.pc \in {"exc1", "exc2", "exc3", "done"}
                /\ w.exc # None
                /\ k \notin DOMAIN w.date_topic_mapping
                /\ k \notin DOMAIN w.all_extracted_mapping
                /\ ~StoredIn(w.topics_by_date, k))
  /\ [][\A r \in Requests :
          (workers[r].rate_limited_on # None /\ workers'[r] # workers[r]) =>
            /\ workers'[r].llm_called = workers[r].llm_called
            /\ file' = file
            /\ (workers[r].pc = "exc1" =>
                  /\ topic_extraction_state'.error = workers[r].exc
                  /\ topic_extraction_state'.error # None)]_vars

\* a thread has ended after the rate-limit error of a conversation that was
\* not the last of its run, and its exception is in the progress state
C9_Witness ==
  \E r \in Requests :
    LET w == workers[r]
    IN  /\ w.rate_limited_on # None
        /\ w.pc = "done"
        /\ topic_extraction_state.error = w.exc
        /\ (w.idx < Len(w.conversations_to_process) \/ w.di < Len(w.dates))

\* the conversations that had a record in the blob when the thread w loaded it
PreStored(w) ==
  { c \in w.conversations : corpus[c] \in DOMAIN w.loaded /\ c \in DOMAIN w.loaded[corpus[c]] }

\* the conversations of the dates the thread w has scanned
Scanned(w) ==
  { c \in w.conversations :
      \E i \in 1..Len(w.dates) :
        /\ w.dates[i] = corpus[c]
        /\ (i < w.di \/ (i = w.di /\ w.pc # "scan")) }

\* the run r follows a fully successful run over at least its conversations,
\* and every other run had ended before that one loaded the blob
SecondRun(r) ==
  /\ workers[r].pc \notin {"none", "init"}
  /\ workers[r].pred = Requests \ {r}
  /\ \E q \in workers[r].pred :
       /\ workers[q].pred = workers[r].pred \ {q}
       /\ workers[q].exc = None
       /\ workers[r].conversations \subseteq workers[q].conversations

\* C10: a run issues no LLM call for a conversation that had a record for
\* its date when the run loaded the store, counts it as skipped once its date
\* is scanned, and every write of the run keeps its stored topic; a second
\* run over the same range after a fully successful run issues no LLM call
C10_SkipAlreadyExtracted ==
  /\ [](\A r \in Requests :
          LET w == workers[r]
          IN  /\ PreStored(w) \cap w.llm_called = {}
              /\ PreStored(w) \cap Scanned(w) \subseteq DOMAIN w.all_extracted_mapping
              /\ w.total_skipped = Cardinality(PreStored(w) \cap Scanned(w))
              /\ \A c \in PreStored(w) :
                   /\ StoredIn(w.topics_by_date, c)
                   /\ TopicOf(w.topics_by_date[corpus[c]][c]) = TopicOf(w.loaded[corpus[c]][c])
              /\ (SecondRun(r) => w.llm_called = {}))
  /\ [][\A r \in Requests :
          (workers'[r] # workers[r] /\ file' # file) =>
            \A c \in PreStored(workers[r]) :
              /\ StoredIn(file', c)
              /\ TopicOf(file'[corpus[c]][c]) = TopicOf(workers[r].loaded[corpus[c]][c])]_vars

\* a second run has ended without an LLM call after a fully successful run
\* that found a legacy record, skipped it and extracted another conversation
C10_Witness ==
  \E r \in Requests :
    /\ SecondRun(r)
    /\ workers[r].pc = "done"
    /\ workers[r].total_skipped >= 2
    /\ \E q \in workers[r].pred :
         LET w == workers[q]
         IN  /\ w.exc = None
             /\ w.llm_called # {}
             /\ w.total_skipped >= 1
             /\ \E c \in PreStored(w) : IsStr(w.loaded[corpus[c]][c])

----------------------------------------------------------------------------
(* Properties of a query                                                   *)

\* the query in progress has been planned; its retrieval has run
IsPlanned == rag_process # None

IsRetrieved == rag_process # None /\ rag_process[1].step \in {"retrieved", "answered"}

IsAnswered == rag_process # None /\ rag_process[1].step = "answered"

\* the surveys without the later ones of a uuid already seen
RECURSIVE FirstOfEachUuid(_)
FirstOfEachUuid(svs) ==
  IF svs = << >> THEN << >>
  ELSE LET n    == Len(svs)
           rest == FirstOfEachUuid(SubSeq(svs, 1, n - 1))
       IN  IF \E j \in 1..(n - 1) : svs[j].response_uuid = svs[n].response_uuid
           THEN rest ELSE Append(rest, svs[n])

\* the survey retrieval ran with timeFilter = all on a non-empty corpus and
\* its per-term searches found fewer than 20 items
SparseSurveySearch ==
  /\ IsRetrieved
  /\ rag_process[1].service = "survey"
  /\ Len(surveys) > 0
  /\ rag_process[1].stats[1].by_search_term < 20
  /\ PlanGet(rag_process[1].plan, "time_filters", "all") = "all"

NoUuidTwice(data) ==
  \A i, j \in 1..Len(data) : i # j => data[i].response_uuid # data[j].response_uuid

\* C3 as stated: under the minimum-yield fallback the returned list is
\* exactly the first min(maxItems, |corpus|) items of the corpus in corpus
\* order, each id once, with fallback_used and a fallback reason in the stats
C3_FallbackFirstItems ==
  SparseSurveySearch =>
    LET max_items == PlanGet(rag_process[1].plan, "max_items", 100)
    IN  /\ rag_process[1].data = Take(surveys, Min(max_items, Len(surveys)))
        /\ NoUuidTwice(rag_process[1].data)
        /\ rag_process[1].stats[1].fallback_used
        /\ rag_process[1].stats[1].fallback_reason # None

\* C3, amended: under the minimum-yield fallback the returned list is the
\* first min(maxItems, |corpus|) items of the corpus without the later
\* duplicates of a uuid, in corpus order, with fallback_used and a fallback
\* reason in the stats
C3_FallbackFirstDistinctItems ==
  SparseSurveySearch =>
    LET max_items == PlanGet(rag_process[1].plan, "max_items", 100)
    IN  /\ rag_process[1].data =
             Take(FirstOfEachUuid(surveys), Min(max_items, Len(surveys)))
        /\ NoUuidTwice(rag_process[1].data)
        /\ rag_process[1].stats[1].fallback_used
        /\ rag_process[1].stats[1].fallback_reason # None

\* the fallback ran on a corpus of two surveys of one uuid and returned one
C3_Witness ==
  /\ SparseSurveySearch
  /\ Len(surveys) = 2
  /\ surveys[1].response_uuid = surveys[2].response_uuid
  /\ PlanGet(rag_process[1].plan, "max_items", 100) = 100
  /\ rag_process[1].data = <<surveys[1]>>
  /\ rag_process[1].stats[1].fallback_used

\* the id of an item of the service of the query
ItemId(item) ==
  IF rag_process[1].service = "rag" THEN item.id ELSE item.response_uuid

\* C4: the list a retrieval returns holds no two items of the same id, for
\* either service and whichever paths produced it
C4_DedupInvariant ==
  IsRetrieved =>
    \A i, j \in 1..Len(rag_process[1].data) :
      i # j => ItemId(rag_process[1].data[i]) # ItemId(rag_process[1].data[j])

\* a conversation retrieval has removed duplicates and returned two items
C4_Witness ==
  /\ IsRetrieved
  /\ rag_process[1].service = "rag"
  /\ Len(rag_process[1].data) = 2
  /\ rag_process[1].stats[1].duplicates_removed # None
  /\ rag_process[1].stats[1].duplicates_removed[1] >= 1

\* what the retrieval of the query returns when its plan filters no time
WithoutTimeFilter ==
  LET plan == [rag_process[1].plan EXCEPT !.time_filters = "all"]
  IN  IF rag_process[1].service = "rag"
      THEN rag_retrieve_data(conversations, plan).data
      ELSE survey_retrieve_data(surveys, plan).data

HasNoUsableTimestamp(item) ==
  IF rag_process[1].service = "rag"
  THEN item.timestamp.kind \in {"null", "bad"}
  ELSE item.date_time.kind \in {"null", "bad"}

\* C5: an item whose timestamp is missing or unparsable is never removed by
\* a time filter: if the retrieval returns it without the filter, it returns
\* it with the filter
C5_TimestampTolerance ==
  (IsRetrieved /\ "time_filters" \in DOMAIN rag_process[1].plan) =>
    \A i \in 1..Len(WithoutTimeFilter) :
      HasNoUsableTimestamp(WithoutTimeFilter[i]) =>
        \E j \in 1..Len(rag_process[1].data) : rag_process[1].data[j] = WithoutTimeFilter[i]

\* the planning call ended in an exception, a timeout or an answer that is
\* not a JSON object
PlanningFailed ==
  rag_process[1].call.form \in {"error", "timeout", "prose", "empty_object", "two_objects", "cut"}

HasFallbackCore(plan) ==
  /\ {"search_terms", "time_filters", "max_items", "analysis_focus"} \subseteq DOMAIN plan
  /\ plan.search_terms = <<rag_process[1].question>>
  /\ plan.time_filters = "all"
  /\ plan.max_items = 100
  /\ plan.analysis_focus = <<"general analysis">>

HasDefaultContentTypes(plan) ==
  /\ "content_types" \in DOMAIN plan
  /\ plan.content_types = <<"CHAT_MESSAGE", "EMAIL", "CONVERSATION_NOTE">>

----------------------------------------------------------------------------
(* Properties of the topic validation                                      *)

\* the taxonomy entries that equal the text up to case
CaseMatches(text) == { e \in TopicSet : Lower(e) = Lower(text) }

\* the taxonomy entries that contain the text or are contained in it, up to
\* case
SubstringMatches(text) ==
  { e \in TopicSet : Contains(Lower(text), Lower(e)) \/ Contains(Lower(e), Lower(text)) }

\* C7 as stated: the normalized topic is in the taxonomy; a label equal to
\* an entry up to case, or matching an entry by substring, maps to that
\* entry, and every other label maps to 'Other'
C7_TaxonomyNormalization ==
  validated # None =>
    LET label == validated[1].label
        topic == validated[1].topic
        text  == label.type = "str" /\ label.val # << >>
    IN  /\ topic \in TopicSet
        /\ (text /\ CaseMatches(label.val) # {}) => topic \in CaseMatches(label.val)
        /\ (text /\ CaseMatches(label.val) = {} /\ SubstringMatches(label.val) # {}) =>
             topic \in SubstringMatches(label.val)
        /\ (~text \/ SubstringMatches(label.val) = {}) => topic = Other

\* C7, amended: the normalized topic is in the taxonomy; a label equal to an
\* entry up to case maps to that entry, and every other label, also one that
\* only contains an entry or is contained in one, maps to 'Other'
C7_TaxonomyNormalizationExact ==
  validated # None =>
    LET label == validated[1].label
        topic == validated[1].topic
        text  == label.type = "str" /\ label.val # << >>
    IN  /\ topic \in TopicSet
        /\ (text /\ CaseMatches(label.val) # {}) => topic \in CaseMatches(label.val)
        /\ (~text \/ CaseMatches(label.val) = {}) => topic = Other

\* a label in another case than its entry has been mapped to the entry
C7_Witness ==
  /\ validated # None
  /\ validated[1].label.type = "str"
  /\ validated[1].label.val \notin TopicSet
  /\ validated[1].topic # Other
  /\ Lower(validated[1].topic) = Lower(validated[1].label.val)

----------------------------------------------------------------------------
(* Properties of the retrieval of RAGService                               *)

IsRagRetrieved == IsRetrieved /\ rag_process[1].service = "rag"

\* the conversation items without the later ones of an id already seen
RECURSIVE FirstOfEachId(_)
FirstOfEachId(convs) ==
  IF convs = << >> THEN << >>
  ELSE LET rest == FirstOfEachId(SelectSeq(Tail(convs), LAMBDA x : x.id # Head(convs).id))
       IN  <<Head(convs)>> \o rest

\* C11: when fewer than 20 items are left after the per-term searches and
\* the content-type filter and the corpus is not empty, the retrieval of
\* RAGService returns the first max_items items of the corpus, in the order
\* of the corpus, and its stats say that the fallback was used, and why
C11_RagMinimumYieldFallback ==
  (/\ IsRagRetrieved
   /\ Len(conversations) > 0
   /\ rag_process[1].stats[1].total_searched - rag_process[1].stats[1].filtered_out
        < MIN_RESULTS_THRESHOLD)
    => LET p == rag_process[1]
       IN  /\ p.stats[1].fallback_used
           /\ p.stats[1].fallback_reason # None
           /\ \/ p.data = PySlice(conversations, p.plan.max_items)
              \/ p.data = PySlice(FirstOfEachId(conversations), p.plan.max_items)

\* C14: the plan a retrieval works on has at least one search term,
\* whatever the planning call returned, and the retrieval ends with a list
C14_SearchTermsNonEmpty ==
  IsRagRetrieved =>
    /\ Len(rag_process[1].plan.search_terms) >= 1
    /\ rag_process[1].stats # None

----------------------------------------------------------------------------
(* Properties of the answer to a query                                     *)

\* the kinds of error answers of the ask route
IsTimeoutKind(body) ==
  ~body.success /\ body.status = 504 /\ body.type = "TimeoutError"

IsConfigurationKind(body) ==
  ~body.success /\ Len(body.error) >= 1 /\ body.error[1] = "Configuration error: "

IsGenericFailure(body, outcome) ==
  ~body.success /\ ~IsTimeoutKind(body) /\ ~IsConfigurationKind(body)
    /\ body.error = outcome.msg

\* C15: a failure of the synthesis call reaches the caller as the timeout
\* kind if it is a timeout, as the configuration kind if the API rejected
\* the credentials, and as a generic failure carrying the raw message
\* otherwise; it never reaches the caller as a successful answer
C15_SynthesisFailureKinds ==
  IsAnswered =>
    LET outcome == rag_process[1].response[1].outcome
        body    == rag_process[1].response[1].body
    IN  outcome.kind # "text" =>
          /\ ~body.success
          /\ CASE outcome.kind = "timeout" -> IsTimeoutKind(body)
               [] outcome.kind = "http" /\ outcome.status = 401 -> IsConfigurationKind(body)
               [] OTHER -> IsGenericFailure(body, outcome)

\* the service of the query holds no corpus
CorpusUnavailable ==
  IF rag_process[1].service = "rag" THEN Len(conversations) = 0 ELSE Len(surveys) = 0

\* C16: a query answered while its service holds no corpus does not get a
\* successful answer: the caller is told that no data is loaded
C16_CorpusUnavailable ==
  (IsAnswered /\ CorpusUnavailable /\ rag_process[1].response[1].outcome.kind = "text")
    => ~rag_process[1].response[1].body.success

----------------------------------------------------------------------------
(* Properties of loading and refreshing the corpus                         *)

\* C12: a refresh publishes its corpus in one step: whenever
\* self.conversations changes, a load is in progress and the new value is
\* the complete list of that load (or [] if the load failed), so that a
\* reader sees the complete old corpus or the complete new one
C12_AtomicCorpusSwap ==
  [][conversations' # conversations =>
       /\ refresh.pc = "building"
       /\ conversations' = BuildAll(refresh.raw)]_vars

\* the first refresh has built one item of two, the corpus still is the old
\* one, which is not empty and differs from the part built, and the query in
\* progress has read it during this refresh
C12_Witness ==
  /\ refresh.pc = "building" /\ refresh.count = 1
  /\ Len(refresh.built) = 1 /\ Len(refresh.raw) = 2
  /\ conversations = refresh.old
  /\ conversations # << >> /\ conversations # refresh.built
  /\ reader.mid_refresh
  /\ reader.reads[Len(reader.reads)] = refresh.old

\* C13: all the reads of the corpus one process_query makes see the same
\* list, also when a refresh runs between two of them
C13_QuerySnapshot ==
  \A i, j \in DOMAIN reader.reads : reader.reads[i] = reader.reads[j]

\* C17: a load keeps every well-formed line of the file, whatever the
\* other lines are: a malformed line is skipped
C17_MalformedLineSkipped ==
  refresh.pc = "building" =>
    \A i \in DOMAIN refresh.content :
      refresh.content[i].kind = "object" =>
        \E j \in DOMAIN refresh.raw : refresh.raw[j] = refresh.content[i]

----------------------------------------------------------------------------
(* Properties of the stored topics and of the progress of a batch          *)

\* the thread of request r has built its TopicStorageService
HasLoaded(r) == workers[r].pc \notin {"none", "init"}

\* C18: once a TopicStorageService has loaded the blob, every record
\* get_topics_for_date returns is a full mapping, never a bare topic string,
\* also for the records the blob holds in the old format
C18_LegacyUpgradedOnLoad ==
  \A r \in Requests :
    HasLoaded(r) =>
      \A d \in Dates :
        LET records == get_topics_for_date(workers[r].topics_by_date, d)
        IN  \A c \in DOMAIN records : ~IsStr(records[c])

\* the thread of request r is the only one started, and the batch runs
OnlyRunning(r) ==
  /\ HasLoaded(r)
  /\ \A q \in Requests \ {r} : workers[q].pc = "none"
  /\ topic_extraction_state.is_running

\* C20: while a batch runs, processed_count is the number of conversations
\* whose extraction has succeeded so far, and failed_count the number of
\* those whose extraction has ended with an error that is no rate-limit
\* error
C20_LiveProgressExact ==
  \A r \in Requests :
    OnlyRunning(r) =>
      /\ topic_extraction_state.processed_count = workers[r].succeeded
      /\ topic_extraction_state.failed_count = Cardinality(workers[r].failed)

\* C19: a batch can be stopped from outside by a flag its thread tests
\* between two conversations: once the flag of the shared progress state is
\* cleared, a thread finishes the LLM call it is in and does not go on to
\* the next conversation
C19_StopBetweenItems ==
  [][\A r \in Requests :
       (~topic_extraction_state.is_running /\ (LLMCall(r) \/ FallbackCall(r)))
         => ~(workers'[r].pc = "extract" /\ workers'[r].idx # workers[r].idx)]_vars

----------------------------------------------------------------------------
(* Retry schedule of extract_conversation_metadata                         *)

\* the waits in seconds before the retry that follows attempt 0, 1, 2, ...
RateLimitDelays == <<1, 2, 4, 8, 16, 32, 60, 60>>

\* the extraction calls of the retry loop: every LLM call but the topic-only
\* one of _extract_topic_fallback
ExtractionCalls(e) == e.calls - (IF e.fallback_called THEN 1 ELSE 0)

----------------------------------------------------------------------------
(* Termination and LLM calls of extract_conversation_metadata              *)

ExtractionOver == extraction.pc \in {"returned", "raised"}

\* C28 as stated: the call ends for every sequence of LLM outcomes and
\* issues at most max_retries LLM calls
C28_AtMostMaxRetriesCalls ==
  /\ [](extraction.calls <= extraction.max_retries)
  /\ (extraction.pc = "call") ~> ExtractionOver

\* C28: for every sequence of LLM outcomes the call ends, with a record or
\* an exception, and has then issued at most max_retries + 1 LLM calls: the
\* max_retries extraction calls of the loop and, after malformed JSON on
\* the last of them, the one topic-only call of _extract_topic_fallback.
C28_TerminatesWithBoundedCalls ==
  /\ [](/\ extraction.calls <= extraction.max_retries + 1
        /\ extraction.calls = extraction.max_retries + 1 => extraction.fallback_called
        /\ ExtractionOver =>
             (extraction.result # None) # (extraction.exc # None))
  /\ (extraction.pc = "call") ~> ExtractionOver

\* malformed JSON on every attempt of the loop, then the fallback call
C28_Witness ==
  /\ extraction.pc = "returned"
  /\ extraction.fallback_called
  /\ extraction.max_retries = MaxRetries
  /\ extraction.calls = MaxRetries + 1

----------------------------------------------------------------------------
(* Validity of the extracted records                                       *)

\* a record with a topic of the taxonomy, a sentiment and a customer
\* sentiment of their fixed sets, and at most 5 key phrases
IsValidRecord(record) ==
  /\ record.topic \in Range(CONVERSATION_TOPICS)
  /\ record.sentiment \in {Positive, Negative, Neutral}
  /\ record.customer_sentiment \in {Frustrated, Satisfied, Neutral, Angry, Happy, Concerned}
  /\ Len(record.key_phrases) <= 5

\* C30: every record extract_conversation_metadata returns, and every record
\* handed to the incremental-save callback (after a success, after the JSON
\* fallback, and the default one after a failure), has a topic of the
\* taxonomy, a sentiment in {Positive, Negative, Neutral}, a customer
\* sentiment in {Frustrated, Satisfied, Neutral, Angry, Happy, Concerned}
\* and at most 5 key phrases.
C30_RecordValidity ==
  /\ extraction.result # None => IsValidRecord(extraction.result[1])
  /\ extraction.saved # None => IsValidRecord(extraction.saved[1])

\* the answer with an unknown spelling of the sentiments and seven key
\* phrases was returned and saved with values of the fixed sets and the
\* first phrases that are non-blank strings
C30_Witness ==
  /\ extraction.batch = "saved"
  /\ extraction.saved = extraction.result
  /\ extraction.result # None
  /\ extraction.result[1].sentiment = Positive
  /\ extraction.result[1].customer_sentiment = Angry
  /\ Len(extraction.result[1].key_phrases) = 3

----------------------------------------------------------------------------
(* Progress a batch run can lose                                           *)

\* the conversations the blob holds a record for
Persisted == UNION { DOMAIN file[d] : d \in DOMAIN file }

\* the conversations the run of request r got a record for from
\* batch_extract_topics and whose record is not in the blob
Unpersisted(r) ==
  { c \in workers[r].llm_called : c \in DOMAIN workers[r].all_extracted_mapping } \ Persisted

----------------------------------------------------------------------------
(* Bounds of the progress fields                                           *)

\* C25: in every state of a batch run 0 <= current <= total,
\* processed_count + skipped_count <= total and progress_percentage <= 100.
C25_ProgressBounds ==
  LET st == topic_extraction_state
  IN  /\ 0 <= st.current /\ st.current <= st.total
      /\ st.processed_count + st.skipped_count <= st.total
      /\ st.progress_percentage <= 100

----------------------------------------------------------------------------
(* Conversations whose extraction failed                                   *)

\* C26: after a run, topic storage holds no record for a conversation whose
\* extraction failed in that run with an error that is no rate-limit error,
\* so that a later run over the date processes it again.
C26_FailedNotPersisted ==
  \A r \in Requests :
    workers[r].pc = "done" =>
      \A c \in workers[r].failed : ~StoredIn(file, c)

----------------------------------------------------------------------------
(* The final writes of a thread and a later run                            *)

\* the thread of request r stands between its first final write and the
\* write of is_running = False (lines 419-421, 428-429)
InFinalWrites(r) == workers[r].pc \in {"fin2", "fin3", "exc2"}

\* C27: a thread that has finished never writes into the state of a later
\* run: whenever is_running is true and no thread stands in the middle of
\* its own final writes, end_time and error are null.
C27_NoWriteIntoLaterRun ==
  (/\ topic_extraction_state.is_running
   /\ \A r \in Requests : ~InFinalWrites(r))
  => /\ topic_extraction_state.end_time = None
     /\ topic_extraction_state.error = None

----------------------------------------------------------------------------
(* Items per search term                                                   *)

\* the corpus the retrieval of the query in progress searched
SearchedCorpus == IF rag_process[1].service = "rag" THEN conversations ELSE surveys

\* the positions of the search terms of the plan that match an item of the
\* corpus: the search for the term finds something when nothing limits it
MatchingTerms ==
  LET terms == PlanGet(rag_process[1].plan, "search_terms", << >>)
  IN  { i \in DOMAIN terms :
          IF rag_process[1].service = "rag"
          THEN semantic_search_conversations(conversations, terms[i], Len(conversations)) # << >>
          ELSE semantic_search_surveys(surveys, terms[i], Len(surveys)) # << >> }

\* C23: each search term of a plan is searched with the limit
\* floor(max_items / number of terms), and at least 1, so the searches of a
\* retrieval yield at least one item per matching term, also for a plan
\* with more search terms than max_items.
C23_PerTermBudget ==
  (IsRetrieved /\ Len(SearchedCorpus) > 0)
    => rag_process[1].stats[1].by_search_term >= Cardinality(MatchingTerms)

----------------------------------------------------------------------------
(* The time filter and the cutoff                                          *)

\* the age at the cutoff of a time filter, in the unit the ages of the
\* service's items are counted in: hours for conversations, days for surveys
CutoffAge(service, time_filters) ==
  LET days == CASE time_filters = "last_24_hours" -> 1
                [] time_filters = "last_7_days"   -> 7
                [] time_filters = "last_30_days"  -> 30
                [] time_filters = "last_90_days"  -> 90
  IN  IF service = "rag" THEN 24 * days ELSE days

\* the timestamp of an item, if the service can parse it
ParsableStamp(service, item) ==
  IF service = "rag"
  THEN (IF item.timestamp.kind = "naive" THEN Some(item.timestamp) ELSE None)
  ELSE (IF item.date_time.kind = "valid" THEN Some(item.date_time) ELSE None)

\* C24: for every time filter among last_24_hours, last_7_days,
\* last_30_days and last_90_days and for every corpus, no item a retrieval
\* returns has a parsable timestamp older than the cutoff of the filter,
\* also when no item of the corpus is newer than the cutoff.
C24_TimeFilterEffective ==
  (/\ IsRetrieved
   /\ PlanGet(rag_process[1].plan, "time_filters", "all")
        \in {"last_24_hours", "last_7_days", "last_30_days", "last_90_days"})
  => LET p == rag_process[1]
     IN  \A j \in 1..Len(p.data) :
           LET stamp == ParsableStamp(p.service, p.data[j])
           IN  stamp # None => stamp[1].age <= CutoffAge(p.service, p.plan.time_filters)

----------------------------------------------------------------------------
(* A refresh that fails                                                    *)

\* the load of the refresh in progress cannot succeed: the file cannot be
\* read, a line of it is no JSON, or a parsed value is no object
LoadFailed ==
  \/ ~refresh.readable
  \/ \E i \in DOMAIN refresh.content : refresh.content[i].kind = "garbage"
  \/ \E i \in DOMAIN refresh.raw : refresh.raw[i].kind # "object"

\* C29: a refresh that cannot load or parse the corpus leaves the corpus as
\* it was: when it ends, the list loaded before is still published and
\* is_available() has the value it had.
C29_FailedRefreshKeepsCorpus ==
  [][(refresh.pc = "building" /\ refresh'.pc = "idle" /\ LoadFailed)
       => /\ conversations' = refresh.old
          /\ (Len(conversations') > 0) = (Len(refresh.old) > 0)]_vars

====
